---------------------------- MODULE Spec2Model ----------------------------
(***************************************************************************)
(* OctWa-DEX: the intent swap orchestrator (useSwapExecution), the store   *)
(* it writes (zustand useStore), the payload builder and the UI flows that *)
(* touch the same store (connect, authorize, history reload, disconnect).  *)
(* The hook takes the swap direction and the quote as props: they are the  *)
(* inputs of an executeSwap invocation.                                    *)
(*                                                                         *)
(* JavaScript runs one handler at a time; a handler gives up control only  *)
(* at an await.  Each action below is therefore one synchronous segment of *)
(* a handler: from its entry or from the resumption after an await up to   *)
(* the next await, with every store write the segment makes.               *)
(*                                                                         *)
(* Nullable / optional values are modelled as sequences of length 0 or 1:  *)
(* None is <<>> (null, undefined, absent), Some(v) is <<v>>.  Strings that *)
(* the code inspects character by character (addresses) are sequences of   *)
(* one-character strings.                                                  *)
(***************************************************************************)
EXTENDS Integers, Sequences, FiniteSets, TLC

(***************************************************************************)
(* Bounds of the model.                                                    *)
(***************************************************************************)
\* number of executeSwap invocations in one run
MaxAttempts == 2
\* number of loadSwapHistory requests started in one run
MaxHistoryLoads == 1
\* timeoutMs and pollIntervalMs of a polling function, in clock ticks
WatchTimeout == 4
PollInterval == 1
\* the longest an awaited query takes, in clock ticks
MaxDelay == 1
\* the largest epoch the chain reports at watch start, and how many times
\* the epoch advances during a watch
MaxEpoch0 == 1
MaxEpochSteps == 2
\* times at which a payload is built and encoded; fresh nonces
MaxCodecTime == 1
MaxNonce == 1
\* how many times two neighbouring keys of a payload object are exchanged
MaxKeyMoves == 1
\* the decimal exponents of the amounts handed to the formatters:
\* m * 10^e with e in -MaxTinyExponent..-5 or 0..MaxExponent
MaxExponent == 22
MaxTinyExponent == 20

(***************************************************************************)
(* Program constants.                                                      *)
(***************************************************************************)
\* /^0x[a-fA-F0-9]{40}$/
EvmHexDigits == 40
\* expiry: Date.now() + 5 * 60 * 1000
ExpiryWindowMs == 300000

None == << >>
Some(v) == << v >>

Rep(c, n) == [i \in 1..n |-> c]

Directions == {"OCT_TO_ETH", "ETH_TO_OCT"}

(***************************************************************************)
(* Characters and the address grammars of the payload builder.             *)
(***************************************************************************)
HexLower == {"0", "1", "2", "3", "4", "5", "6", "7", "8", "9",
             "a", "b", "c", "d", "e", "f"}
HexUpper == {"A", "B", "C", "D", "E", "F"}

\* String.prototype.toLowerCase on one character of the model's alphabet
LowerChar(c) ==
    CASE c = "A" -> "a" [] c = "B" -> "b" [] c = "C" -> "c"
      [] c = "D" -> "d" [] c = "E" -> "e" [] c = "F" -> "f"
      [] c = "O" -> "o" [] c = "T" -> "t"
      [] OTHER -> c

toLowerCase(s) == [i \in 1..Len(s) |-> LowerChar(s[i])]

\* /^0x[a-fA-F0-9]{40}$/.test(targetAddress)
IsEvmAddress(a) ==
    /\ Len(a) = 2 + EvmHexDigits
    /\ a[1] = "0"
    /\ a[2] = "x"
    /\ \A i \in 3..Len(a) : a[i] \in HexLower \cup HexUpper

\* targetOctraAddress.startsWith('oct')
StartsWithOct(a) ==
    /\ Len(a) >= 3
    /\ a[1] = "o"
    /\ a[2] = "c"
    /\ a[3] = "t"

\* characters outside Latin-1: btoa() throws InvalidCharacterError on them
NonLatin1 == {"EURO"}

(***************************************************************************)
(* What the wallet boundary can hand back on connect: the account's Octra  *)
(* public key and its derived EVM address.  The wallet is external, so     *)
(* well-formed and malformed values are both drawn.                        *)
(***************************************************************************)
EvmMixed == <<"0", "x">> \o Rep("A", 20) \o Rep("b", 20)
EvmShort == <<"0", "x">> \o Rep("a", 39)
OctGood  == <<"o", "c", "t", "A", "7">>
OctUpper == <<"O", "C", "T", "A", "7">>
OctEuro  == <<"o", "c", "t", "EURO">>

WalletAccounts ==
    { [walletPubKey |-> OctGood,  evmAddress |-> EvmMixed],
      [walletPubKey |-> OctUpper, evmAddress |-> EvmShort],
      [walletPubKey |-> OctEuro,  evmAddress |-> None] }

(***************************************************************************)
(* Values of the external services, as opaque tokens.                      *)
(***************************************************************************)
EscrowOf(from) == IF from = "OCT" THEN "oct-escrow" ELSE "0x-escrow"
SourceAsset(d) == IF d = "OCT_TO_ETH" THEN "OCT" ELSE "ETH"
TargetAsset(d) == IF d = "OCT_TO_ETH" THEN "ETH" ELSE "OCT"

\* the quote the backend answers for GET /quote?from=..&to=..
BackendQuote(d) ==
    [from |-> SourceAsset(d), to |-> TargetAsset(d),
     amountIn |-> <<"number", 10>>, minAmountOut |-> <<"number", 9>>,
     escrowAddress |-> EscrowOf(SourceAsset(d))]

VARIABLES
    \* ---- the store (unnamed/part_000) ----
    connection,         \* None or Some(account)
    capability,         \* BOOLEAN: a capability object is held
    derivedEvmAddress,  \* None or the address (a character sequence)
    swaps,              \* sequence of swap records, newest first
    currentSwapStatus,  \* SwapStatus
    errors,             \* sequence of [code, message]
    \* ---- component state and pending asynchronous work ----
    pendingHistory,     \* number of fetchSwapHistory requests in flight
    historyLoads,       \* number of loadSwapHistory requests started so far
    resetTimers,        \* number of pending setTimeout(() => set idle) timers
    now,                \* Date.now(); advances while a call is awaited
    \* ---- the executeSwap invocations ----
    attempts,           \* number of executeSwap invocations so far
    flow,               \* [1..MaxAttempts -> flow record]
    \* ---- one invocation of a polling function of sdk/intents.ts ----
    wKind,              \* which function: "octra", "sepolia", "fulfillment"
    wPc,                \* the await the invocation is suspended at
    wClock,             \* Date.now()
    wStart,             \* startTime
    wInitialEpoch,      \* initialEpoch: None (null) or Some(epoch)
    wResult,            \* None, Some(returned status) or Some(thrown message)
    wQueries,           \* number of status queries issued
    wObserved,          \* the statuses the status queries answered
    wCalls,             \* the arguments onStatusChange was called with
    wScenario,          \* what the backend has answered so far
    chainEpoch,         \* the chain's current epoch
    \* ---- one call of an envelope encoder, and the backend's decoding ----
    codecPayload,       \* None or Some(payload handed to the encoder)
    codecField,         \* "message" (Octra tx) or "calldata" (EVM tx)
    codecOutput,        \* None, or the encoder's outcome
    codecDecoded,       \* None, or the envelope decoded from the output
    \* ---- one call of a pure function of the SDK or of lib/utils ----
    fnArgs,             \* None or Some(the arguments)
    fnResult,           \* None or Some(what the call returned)
    \* ---- the swap page: its direction, the amount field and quote fetching ----
    swapDirection,      \* useState<SwapDirection> of SwapPage
    amountIn,           \* useState('') of useSwapQuote: the typed text
    quote,              \* the store's quote: None (null) or Some(quote)
    quoteError,         \* None (null) or Some(message)
    quoteTimer,         \* None, or the pending debounce timer's closure
    quoteRequests,      \* the GET /quote requests in flight
    quoteFetches        \* number of GET /quote requests started so far

appVars == << connection, capability, derivedEvmAddress, swaps,
              currentSwapStatus, errors, pendingHistory, historyLoads,
              resetTimers, now, attempts, flow >>

watchVars == << wKind, wPc, wClock, wStart, wInitialEpoch, wResult, wQueries,
                wObserved, wCalls, wScenario, chainEpoch >>

codecVars == << codecPayload, codecField, codecOutput, codecDecoded >>

fnVars == << fnArgs, fnResult >>

pageVars == << swapDirection, amountIn, quote, quoteError, quoteTimer,
               quoteRequests, quoteFetches >>

sdkVars == << watchVars, codecVars, fnVars, pageVars >>

vars == << appVars, sdkVars >>

storeVars == << connection, capability, derivedEvmAddress, swaps,
                currentSwapStatus, errors >>

Attempts == 1..MaxAttempts


(***************************************************************************)
(* Payload Builder (src/sdk/intents.ts).                                   *)
(***************************************************************************)
\* parseFloat on the strings a quote field may carry; every other string
\* parses to NaN, which toNumber turns into 0
NumericStrings == {"10", "9", "0"}
parseFloatOf(s) == CASE s = "10" -> 10 [] s = "9" -> 9 [] OTHER -> 0

\* a quote amount is <<"number", n>> or <<"string", s>>
toNumber(value) ==
    IF value[1] = "number"
    THEN value[2]
    ELSE IF value[2] \in NumericStrings THEN parseFloatOf(value[2]) ELSE 0

Payload(from, to, chain, q, addr, t, n) ==
    [version |-> 1, intentType |-> "swap",
     fromAsset |-> from, toAsset |-> to,
     amountIn |-> toNumber(q.amountIn),
     minAmountOut |-> toNumber(q.minAmountOut),
     targetChain |-> chain,
     targetAddress |-> addr,
     expiry |-> t + ExpiryWindowMs,
     nonce |-> n]

\* faulty variant: only the 0x prefix is checked, not the 40 hex digits
createIntentPayloadThrows_PrefixOnly(targetAddress) ==
    ~(Len(targetAddress) >= 2 /\ targetAddress[1] = "0" /\ targetAddress[2] = "x")

\* createIntentPayload throws 'Invalid EVM address format'
createIntentPayloadThrows(targetAddress) == ~IsEvmAddress(targetAddress)

\* createIntentPayload(quote, targetAddress) at time t with the fresh UUID n
createIntentPayload(q, targetAddress, t, n) ==
    Payload("OCT", "ETH", "ethereum_sepolia", q, toLowerCase(targetAddress), t, n)

\* createEthToOctIntentPayload throws 'Invalid Octra address format'
createEthToOctIntentPayloadThrows(targetOctraAddress) ==
    ~StartsWithOct(targetOctraAddress)

\* faulty variant: the target chain of the other direction is written
createEthToOctIntentPayload_SepoliaChain(q, targetOctraAddress, t, n) ==
    Payload("ETH", "OCT", "ethereum_sepolia", q, targetOctraAddress, t, n)

createEthToOctIntentPayload(q, targetOctraAddress, t, n) ==
    Payload("ETH", "OCT", "octra_mainnet", q, targetOctraAddress, t, n)

\* btoa(JSON.stringify(envelope)) throws when the JSON holds a character
\* outside Latin-1; of the payload's fields only targetAddress is free text
BtoaThrows(payload) ==
    \E i \in 1..Len(payload.targetAddress) : payload.targetAddress[i] \in NonLatin1

(***************************************************************************)
(* The store's operations on swaps and errors (unnamed/part_000).          *)
(***************************************************************************)
\* { ...s, ...updates }
Spread(s, updates) ==
    [k \in DOMAIN s |-> IF k \in DOMAIN updates THEN updates[k] ELSE s[k]]

\* faulty variant: the new record replaces the list
addSwap_Replace(sw, swap) == << swap >>

addSwap(sw, swap) == << swap >> \o sw

\* faulty variant: when no record has the id, one is added
updateSwap_Upsert(sw, id, updates) ==
    IF \E i \in 1..Len(sw) : sw[i].id = id
    THEN [i \in 1..Len(sw) |->
             IF sw[i].id = id THEN Spread(sw[i], updates) ELSE sw[i]]
    ELSE << [id |-> id] >> \o sw

\* faulty variant: the id test is dropped, every record takes the update
updateSwap_AnyId(sw, id, updates) ==
    [i \in 1..Len(sw) |-> Spread(sw[i], updates)]

updateSwap(sw, id, updates) ==
    [i \in 1..Len(sw) |-> IF sw[i].id = id THEN Spread(sw[i], updates) ELSE sw[i]]

addError(es, code, message, t) ==
    Append(es, [code |-> code, message |-> message, timestamp |-> t])

\* the SwapRecord literal of executeSwap; optional fields start undefined
SwapRecord(id, direction, payload, t) ==
    [id |-> id, direction |-> direction, payload |-> payload,
     status |-> "signing", createdAt |-> t,
     intentId |-> None, sourceTxHash |-> None, octraTxHash |-> None,
     targetTxHash |-> None, amountOut |-> None, fulfilledAt |-> None,
     error |-> None]

\* isSwapping of useSwapExecution
isSwapping ==
    /\ currentSwapStatus # "idle"
    /\ currentSwapStatus # "fulfilled"
    /\ currentSwapStatus # "failed"


(***************************************************************************)
(* One executeSwap invocation.  pc is where the async function stands:     *)
(*   unused        not invoked yet                                         *)
(*   noop          returned at the guard (capability, quote or address)    *)
(*   rejected      returned after the payload builder threw                *)
(*   await_sign    awaiting invoke(sign_intent)                            *)
(*   await_encode  awaiting encodeIntentForOctraTx / ...AsHex              *)
(*   await_send    awaiting invoke(send_transaction / send_evm_transaction)*)
(*   await_confirm awaiting the confirmation watcher                       *)
(*   await_submit  awaiting submitIntent / submitEthToOctIntent            *)
(*   await_poll    awaiting waitForFulfillment                             *)
(*   fulfilled     returned through the success branch                     *)
(*   failed        returned through the catch block                        *)
(* The remaining fields are the function's locals and a log of the calls   *)
(* it made on the wallet and on the backend.                               *)
(***************************************************************************)
UnusedFlow ==
    [pc |-> "unused", direction |-> "OCT_TO_ETH", target |-> None,
     swapId |-> None, payload |-> None, escrowAddress |-> None,
     signCalls |-> 0, sendCalls |-> 0, watchCalls |-> 0,
     submitCalls |-> 0, pollCalls |-> 0,
     signResult |-> None, watchOutcome |-> None,
     txHash |-> None, intentId |-> None, polledId |-> None,
     pollResult |-> None, pollResponse |-> None, pollThrown |-> None,
     error |-> None]

\* `swap-${Date.now()}-${Math.random().toString(36).slice(2, 8)}`
SwapId(f) == << "swap", f >>
\* faulty variant: the nonce is a constant of the build
Nonce_Reused(f) == << "uuid", 0 >>

\* crypto.randomUUID() of the f-th payload
Nonce(f) == << "uuid", f >>
\* the hash the wallet returns for the f-th attempt's escrow transaction
TxHashOf(f) == << "tx", f >>
\* the intentId the backend assigns to the f-th attempt's submission
IntentIdOf(f) == << "intent", f >>

\* the destination address executeSwap passes to the payload builder
TargetAddressOf(d) ==
    IF d = "OCT_TO_ETH"
    THEN derivedEvmAddress
    ELSE IF connection = None THEN None ELSE connection[1].walletPubKey

BuilderThrows(d, addr) ==
    IF d = "OCT_TO_ETH"
    THEN createIntentPayloadThrows(addr)
    ELSE createEthToOctIntentPayloadThrows(addr)

BuilderMessage(d) ==
    IF d = "OCT_TO_ETH"
    THEN "Invalid EVM address format"
    ELSE "Invalid Octra address format"

BuildPayload(d, q, addr, t, n) ==
    IF d = "OCT_TO_ETH"
    THEN createIntentPayload(q, addr, t, n)
    ELSE createEthToOctIntentPayload(q, addr, t, n)

\* faulty variant: the guard does not look at the destination address
GuardReturns_IgnoresAddress(d, q) == ~capability \/ q = None

\* if (!capability || !quote || !derivedEvmAddress) return;
\* if (!capability || !quote || !connection?.walletPubKey) return;
GuardReturns(d, q) == ~capability \/ q = None \/ TargetAddressOf(d) = None

\* the quote prop of an invocation for direction d: none, or the backend's
QuoteProps(d) == { None, Some(BackendQuote(d)) }

\* faulty variant: the catch block does not log the error
Catch_NoLog(f, fl, message) ==
    /\ currentSwapStatus' = "failed"
    /\ swaps' = updateSwap(swaps, fl.swapId[1],
                           [status |-> "failed", error |-> Some(message)])
    /\ errors' = errors
    /\ resetTimers' = resetTimers + 1
    /\ flow' = [flow EXCEPT ![f] = [fl EXCEPT !.pc = "failed",
                                             !.error = Some(message)]]

\* The catch and finally blocks: mark the attempt failed, log the error,
\* schedule the reset of the status indicator.
Catch(f, fl, message) ==
    /\ currentSwapStatus' = "failed"
    /\ swaps' = updateSwap(swaps, fl.swapId[1],
                           [status |-> "failed", error |-> Some(message)])
    /\ errors' = addError(errors, "SWAP_FAILED", message, now)
    /\ resetTimers' = resetTimers + 1
    /\ flow' = [flow EXCEPT ![f] = [fl EXCEPT !.pc = "failed",
                                             !.error = Some(message)]]

\* faulty variant: a rejected address sets the status indicator to failed
ExecuteSwap_RejectMarksFailed(d, q) ==
    /\ attempts < MaxAttempts
    /\ ~isSwapping
    /\ attempts' = attempts + 1
    /\ LET f == attempts + 1
           addr == TargetAddressOf(d)
           base == [UnusedFlow EXCEPT !.direction = d, !.target = addr]
       IN  \/ /\ GuardReturns(d, q)
              /\ flow' = [flow EXCEPT ![f] = [base EXCEPT !.pc = "noop"]]
              /\ UNCHANGED << swaps, currentSwapStatus, errors >>
           \/ /\ ~GuardReturns(d, q)
              /\ BuilderThrows(d, addr)
              /\ errors' = addError(errors, "VALIDATION_FAILED", BuilderMessage(d), now)
              /\ flow' = [flow EXCEPT ![f] = [base EXCEPT !.pc = "rejected"]]
              /\ currentSwapStatus' = "failed"
              /\ UNCHANGED swaps
           \/ /\ ~GuardReturns(d, q)
              /\ ~BuilderThrows(d, addr)
              /\ LET payload == BuildPayload(d, q[1], addr, now, Nonce(f))
                     rec == SwapRecord(SwapId(f), d, payload, now)
                 IN  /\ swaps' = updateSwap(addSwap(swaps, rec), SwapId(f),
                                            [status |-> "signing"])
                     /\ currentSwapStatus' = "signing"
                     /\ flow' = [flow EXCEPT ![f] =
                           [base EXCEPT !.pc = "await_sign",
                                        !.swapId = Some(SwapId(f)),
                                        !.payload = Some(payload),
                                        !.escrowAddress = Some(q[1].escrowAddress),
                                        !.signCalls = 1]]
              /\ UNCHANGED errors
    /\ UNCHANGED << sdkVars, connection, capability, derivedEvmAddress,
                    pendingHistory, historyLoads, resetTimers, now >>

\* executeSwap() with props swapDirection = d and quote = q, up to the first
\* await; the caller offers it while isSwapping is false
ExecuteSwap(d, q) ==
    /\ attempts < MaxAttempts
    /\ ~isSwapping
    /\ attempts' = attempts + 1
    /\ LET f == attempts + 1
           addr == TargetAddressOf(d)
           base == [UnusedFlow EXCEPT !.direction = d, !.target = addr]
       IN  \/ /\ GuardReturns(d, q)
              /\ flow' = [flow EXCEPT ![f] = [base EXCEPT !.pc = "noop"]]
              /\ UNCHANGED << swaps, currentSwapStatus, errors >>
           \/ /\ ~GuardReturns(d, q)
              /\ BuilderThrows(d, addr)
              /\ errors' = addError(errors, "VALIDATION_FAILED", BuilderMessage(d), now)
              /\ flow' = [flow EXCEPT ![f] = [base EXCEPT !.pc = "rejected"]]
              /\ UNCHANGED << swaps, currentSwapStatus >>
           \/ /\ ~GuardReturns(d, q)
              /\ ~BuilderThrows(d, addr)
              /\ LET payload == BuildPayload(d, q[1], addr, now, Nonce(f))
                     rec == SwapRecord(SwapId(f), d, payload, now)
                 IN  /\ swaps' = updateSwap(addSwap(swaps, rec), SwapId(f),
                                            [status |-> "signing"])
                     /\ currentSwapStatus' = "signing"
                     /\ flow' = [flow EXCEPT ![f] =
                           [base EXCEPT !.pc = "await_sign",
                                        !.swapId = Some(SwapId(f)),
                                        !.payload = Some(payload),
                                        !.escrowAddress = Some(q[1].escrowAddress),
                                        !.signCalls = 1]]
              /\ UNCHANGED errors
    /\ UNCHANGED << sdkVars, connection, capability, derivedEvmAddress,
                    pendingHistory, historyLoads, resetTimers, now >>


(***************************************************************************)
(* What the awaited calls can answer.                                      *)
(***************************************************************************)
\* invoke(): resolves with success true ("ok") or false ("refused"), or rejects
InvokeResults == {"ok", "refused", "throw"}
WalletRejectMessage == "User rejected request"

\* waitForOctraTxConfirmation / waitForSepoliaTxConfirmation return values
WatcherOutcomes(d) ==
    IF d = "OCT_TO_ETH"
    THEN {"confirmed", "failed", "epoch_missed", "timeout"}
    ELSE {"confirmed", "failed", "timeout"}

\* submitIntent / submitEthToOctIntent: the parsed body, or a thrown error
SubmitResults == {"ok", "error"}
SubmitErrorMessage == "Submit failed: 500"

\* getIntentStatus bodies that end waitForFulfillment (targetTxHash and
\* amountOut are optional in the response type), and its two ways of throwing
StatusResponses ==
    { [status |-> "FULFILLED", targetTxHash |-> Some("0xpayout"), amountOut |-> Some(5)],
      [status |-> "FULFILLED", targetTxHash |-> None, amountOut |-> None],
      [status |-> "EXPIRED", targetTxHash |-> None, amountOut |-> None],
      [status |-> "REJECTED", targetTxHash |-> None, amountOut |-> None] }
\* throw new Error('Timeout waiting for fulfillment')
FulfillmentTimeoutMessage == "Timeout waiting for fulfillment"
PollThrows == {FulfillmentTimeoutMessage, "Status check failed: 500"}

\* faulty variant: the success flag of the result is not examined
InvokeFailed_ThrowOnly(r) == r = "throw"

\* if (!signResult.success) throw ...   (a rejected invoke throws by itself)
InvokeFailed(r) == r # "ok"

InvokeMessage(r, refusedMessage) ==
    IF r = "refused" THEN refusedMessage ELSE WalletRejectMessage

\* faulty variant: only an explicit failure stops the attempt
NotConfirmed_FailedOnly(outcome) == outcome = "failed"

\* if (!confirmResult.confirmed) throw ...
NotConfirmed(outcome) == outcome # "confirmed"

ConfirmMessage(d, outcome) ==
    IF d = "OCT_TO_ETH"
    THEN CASE outcome = "failed" -> "Octra transaction failed"
           [] outcome = "epoch_missed" ->
                  "Octra transaction not included in block (epoch changed)"
           [] OTHER -> "Octra transaction not confirmed (timeout)"
    ELSE CASE outcome = "failed" -> "Sepolia transaction failed"
           [] OTHER -> "Sepolia transaction timeout"

\* faulty variant: every status but REJECTED counts as success
IsFulfilled_NotRejected(status) == status # "REJECTED"

\* if (finalStatus.status === 'FULFILLED')
IsFulfilled(status) == status = "FULFILLED"

\* `Swap ${String(finalStatus.status).toLowerCase()}`
SwapStatusMessage(status) ==
    CASE status = "EXPIRED" -> "Swap expired"
      [] status = "REJECTED" -> "Swap rejected"
      [] OTHER -> "Swap fulfilled"

\* the status each step writes on entering it
StatusSending    == "sending"
StatusConfirming == "confirming"
StatusSubmitting == "submitting"
StatusPolling    == "polling"

\* faulty variant: the indicator is set but the record is not updated
EnterStep_IndicatorOnly(fl, st) ==
    /\ currentSwapStatus' = st
    /\ swaps' = swaps

\* setCurrentSwapStatus(st); updateSwap(swapId, { status: st })
EnterStep(fl, st) ==
    /\ currentSwapStatus' = st
    /\ swaps' = updateSwap(swaps, fl.swapId[1], [status |-> st])

\* what a resumed invocation leaves alone; the awaited call took time
Resumed ==
    /\ now' = now + 1
    /\ UNCHANGED << sdkVars, connection, capability, derivedEvmAddress,
                    pendingHistory, historyLoads, attempts >>

\* resumption after await invoke(sign_intent)
SignReturn(f, r) ==
    /\ flow[f].pc = "await_sign"
    /\ LET fl == [flow[f] EXCEPT !.signResult = Some(r)]
       IN  IF InvokeFailed(r)
           THEN Catch(f, fl, InvokeMessage(r, "Failed to sign intent"))
           ELSE /\ EnterStep(fl, StatusSending)
                /\ flow' = [flow EXCEPT ![f] = [fl EXCEPT !.pc = "await_encode"]]
                /\ UNCHANGED << errors, resetTimers >>
    /\ Resumed

\* resumption after await encodeIntentForOctraTx / encodeIntentPayloadAsHex,
\* up to the dispatch of the escrow transaction
EncodeReturn(f) ==
    /\ flow[f].pc = "await_encode"
    /\ LET fl == flow[f]
       IN  IF BtoaThrows(fl.payload[1])
           THEN Catch(f, fl, "InvalidCharacterError")
           ELSE /\ flow' = [flow EXCEPT ![f] = [fl EXCEPT !.pc = "await_send",
                                                      !.sendCalls = @ + 1]]
                /\ UNCHANGED << swaps, currentSwapStatus, errors, resetTimers >>
    /\ Resumed

\* faulty variant: the returned transaction hash is not written to the record
SendReturn_NoHash(f, r) ==
    /\ flow[f].pc = "await_send"
    /\ LET fl == flow[f]
           h == TxHashOf(f)
       IN  IF InvokeFailed(r)
           THEN Catch(f, fl, InvokeMessage(r,
                    IF fl.direction = "OCT_TO_ETH"
                    THEN "Failed to send transaction to escrow"
                    ELSE "Failed to send ETH transaction to escrow"))
           ELSE /\ currentSwapStatus' = StatusConfirming
                /\ swaps' = updateSwap(swaps, fl.swapId[1],
                                       [status |-> StatusConfirming])
                /\ flow' = [flow EXCEPT ![f] = [fl EXCEPT !.pc = "await_confirm",
                                                      !.txHash = Some(h),
                                                      !.watchCalls = @ + 1]]
                /\ UNCHANGED << errors, resetTimers >>
    /\ Resumed

\* resumption after await invoke(send_transaction / send_evm_transaction)
SendReturn(f, r) ==
    /\ flow[f].pc = "await_send"
    /\ LET fl == flow[f]
           h == TxHashOf(f)
           hashUpdate == IF fl.direction = "OCT_TO_ETH"
                         THEN [sourceTxHash |-> Some(h), octraTxHash |-> Some(h)]
                         ELSE [sourceTxHash |-> Some(h)]
       IN  IF InvokeFailed(r)
           THEN Catch(f, fl, InvokeMessage(r,
                    IF fl.direction = "OCT_TO_ETH"
                    THEN "Failed to send transaction to escrow"
                    ELSE "Failed to send ETH transaction to escrow"))
           ELSE /\ currentSwapStatus' = StatusConfirming
                /\ swaps' = updateSwap(updateSwap(swaps, fl.swapId[1], hashUpdate),
                                       fl.swapId[1], [status |-> StatusConfirming])
                /\ flow' = [flow EXCEPT ![f] = [fl EXCEPT !.pc = "await_confirm",
                                                      !.txHash = Some(h),
                                                      !.watchCalls = @ + 1]]
                /\ UNCHANGED << errors, resetTimers >>
    /\ Resumed

\* resumption after await waitForOctraTxConfirmation / waitForSepoliaTxConfirmation
ConfirmReturn(f, outcome) ==
    /\ flow[f].pc = "await_confirm"
    /\ outcome \in WatcherOutcomes(flow[f].direction)
    /\ LET fl == [flow[f] EXCEPT !.watchOutcome = Some(outcome)]
       IN  IF NotConfirmed(outcome)
           THEN Catch(f, fl, ConfirmMessage(fl.direction, outcome))
           ELSE /\ EnterStep(fl, StatusSubmitting)
                /\ flow' = [flow EXCEPT ![f] = [fl EXCEPT !.pc = "await_submit",
                                                      !.submitCalls = @ + 1]]
                /\ UNCHANGED << errors, resetTimers >>
    /\ Resumed

\* faulty variant: a failed submission is sent again
SubmitReturn_Retry(f, r) ==
    /\ flow[f].pc = "await_submit"
    /\ r = "error"
    /\ flow' = [flow EXCEPT ![f].submitCalls = @ + 1]
    /\ UNCHANGED << swaps, currentSwapStatus, errors, resetTimers >>
    /\ Resumed

\* resumption after await submitIntent / submitEthToOctIntent
SubmitReturn(f, r) ==
    /\ flow[f].pc = "await_submit"
    /\ LET fl == flow[f]
           id == IntentIdOf(f)
       IN  IF r = "error"
           THEN Catch(f, fl, SubmitErrorMessage)
           ELSE /\ currentSwapStatus' = StatusPolling
                /\ swaps' = updateSwap(updateSwap(swaps, fl.swapId[1],
                                                  [intentId |-> Some(id)]),
                                       fl.swapId[1], [status |-> StatusPolling])
                /\ flow' = [flow EXCEPT ![f] = [fl EXCEPT !.pc = "await_poll",
                                                      !.intentId = Some(id),
                                                      !.polledId = Some(id),
                                                      !.pollCalls = @ + 1]]
                /\ UNCHANGED << errors, resetTimers >>
    /\ Resumed

\* faulty variant: the success branch records the status only
Fulfil_StatusOnly(f, fl, res) ==
    /\ currentSwapStatus' = "fulfilled"
    /\ swaps' = updateSwap(swaps, fl.swapId[1], [status |-> "fulfilled"])
    /\ resetTimers' = resetTimers + 1
    /\ flow' = [flow EXCEPT ![f] = [fl EXCEPT !.pc = "fulfilled"]]
    /\ UNCHANGED errors

\* the success branch: record the payout, call the onSuccess prop, then the
\* finally block
Fulfil(f, fl, res) ==
    /\ currentSwapStatus' = "fulfilled"
    /\ swaps' = updateSwap(swaps, fl.swapId[1],
                           [status |-> "fulfilled",
                            targetTxHash |-> res.targetTxHash,
                            amountOut |-> res.amountOut,
                            fulfilledAt |-> Some(now)])
    /\ resetTimers' = resetTimers + 1
    /\ flow' = [flow EXCEPT ![f] = [fl EXCEPT !.pc = "fulfilled"]]
    /\ UNCHANGED errors

\* resumption after await waitForFulfillment: it returned a terminal status
PollReturn(f, res) ==
    /\ flow[f].pc = "await_poll"
    /\ LET fl == [flow[f] EXCEPT !.pollResult = Some(res.status),
                                 !.pollResponse = Some(res)]
       IN  IF IsFulfilled(res.status)
           THEN Fulfil(f, fl, res)
           ELSE Catch(f, fl, SwapStatusMessage(res.status))
    /\ Resumed

\* faulty variant: the catch block reports a fixed text, not the error's
PollThrow_FixedText(f, message) ==
    /\ flow[f].pc = "await_poll"
    /\ Catch(f, [flow[f] EXCEPT !.pollResult = Some("thrown"),
                               !.pollThrown = Some(message)], "Swap failed")
    /\ Resumed

\* resumption after await waitForFulfillment: it threw
PollThrow(f, message) ==
    /\ flow[f].pc = "await_poll"
    /\ Catch(f, [flow[f] EXCEPT !.pollResult = Some("thrown"),
                               !.pollThrown = Some(message)], message)
    /\ Resumed

\* faulty variant: the timer's callback leaves the indicator as it is
ResetTimerFires_NoReset ==
    /\ resetTimers > 0
    /\ resetTimers' = resetTimers - 1
    /\ UNCHANGED << sdkVars, connection, capability, derivedEvmAddress, swaps,
                    currentSwapStatus, errors, pendingHistory, historyLoads,
                    now, attempts, flow >>

\* setTimeout(() => setCurrentSwapStatus('idle'), STATUS_RESET_DELAY_MS) fires
ResetTimerFires ==
    /\ resetTimers > 0
    /\ resetTimers' = resetTimers - 1
    /\ currentSwapStatus' = "idle"
    /\ UNCHANGED << sdkVars, connection, capability, derivedEvmAddress, swaps,
                    errors, pendingHistory, historyLoads, now, attempts, flow >>


(***************************************************************************)
(* The other flows that write the same store.                              *)
(***************************************************************************)
\* what GET /history/:address can answer: the backend's own records, keyed
\* by the backend's ids
BackendHistoryItem ==
    [id |-> << "intent", 0 >>, direction |-> "OCT_TO_ETH", status |-> "fulfilled",
     payload |-> [fromAsset |-> "OCT", toAsset |-> "ETH", amountIn |-> 3,
                  minAmountOut |-> 2, targetAddress |-> EvmMixed],
     sourceTxHash |-> Some(<< "tx", 0 >>), targetTxHash |-> Some("0xpayout"),
     amountOut |-> Some(2), createdAt |-> 0, fulfilledAt |-> Some(0),
     error |-> None]

BackendHistories == { << >>, << BackendHistoryItem >> }

\* history.swaps.map(s => ({ ... })) of loadSwapHistory
HistoryRecord(s) ==
    [id |-> s.id, direction |-> s.direction,
     payload |-> [version |-> 1, intentType |-> "swap",
                  fromAsset |-> s.payload.fromAsset,
                  toAsset |-> s.payload.toAsset,
                  amountIn |-> s.payload.amountIn,
                  minAmountOut |-> s.payload.minAmountOut,
                  targetChain |-> IF s.direction = "OCT_TO_ETH"
                                  THEN "ethereum_sepolia" ELSE "octra_mainnet",
                  targetAddress |-> s.payload.targetAddress,
                  expiry |-> 0, nonce |-> << >>],
     status |-> s.status, createdAt |-> s.createdAt,
     intentId |-> None, sourceTxHash |-> s.sourceTxHash, octraTxHash |-> None,
     targetTxHash |-> s.targetTxHash, amountOut |-> s.amountOut,
     fulfilledAt |-> s.fulfilledAt, error |-> s.error]

\* handleConnect: setConnection(conn), then the effect that syncs the
\* derived EVM address when the connection carries one
HandleConnect(conn) ==
    /\ connection = None
    /\ connection' = Some(conn)
    /\ derivedEvmAddress' = IF conn.evmAddress # None
                            THEN conn.evmAddress ELSE derivedEvmAddress
    /\ UNCHANGED << sdkVars, capability, swaps, currentSwapStatus, errors,
                    pendingHistory, historyLoads, resetTimers, now, attempts,
                    flow >>

\* handleAuthorize: setCapability(cap), then the effect of useBalances that
\* starts loadSwapHistory (which returns at once without a wallet key)
HandleAuthorize ==
    /\ connection # None
    /\ ~capability
    /\ historyLoads < MaxHistoryLoads
    /\ capability' = TRUE
    /\ IF connection[1].walletPubKey # None
       THEN /\ pendingHistory' = pendingHistory + 1
            /\ historyLoads' = historyLoads + 1
       ELSE UNCHANGED << pendingHistory, historyLoads >>
    /\ UNCHANGED << sdkVars, connection, derivedEvmAddress, swaps,
                    currentSwapStatus, errors, resetTimers, now, attempts,
                    flow >>

\* loadSwapHistory after await fetchSwapHistory: setSwaps(swapRecords)
LoadSwapHistoryReturn(history) ==
    /\ pendingHistory > 0
    /\ pendingHistory' = pendingHistory - 1
    /\ swaps' = [i \in 1..Len(history) |-> HistoryRecord(history[i])]
    /\ UNCHANGED << sdkVars, connection, capability, derivedEvmAddress,
                    currentSwapStatus, errors, historyLoads, resetTimers, now,
                    attempts, flow >>

\* loadSwapHistory when fetchSwapHistory throws: logged, nothing written
LoadSwapHistoryFails ==
    /\ pendingHistory > 0
    /\ pendingHistory' = pendingHistory - 1
    /\ UNCHANGED << sdkVars, storeVars, historyLoads, resetTimers, now, attempts,
                    flow >>

\* handleDisconnect of the layout's account menu
HandleDisconnect ==
    /\ connection # None
    /\ connection' = None
    /\ capability' = FALSE
    /\ derivedEvmAddress' = None
    /\ swaps' = << >>
    /\ UNCHANGED << sdkVars, currentSwapStatus, errors, pendingHistory,
                    historyLoads, resetTimers, now, attempts, flow >>

\* clearErrors, from the error panel
ClearErrors ==
    /\ errors # << >>
    /\ errors' = << >>
    /\ UNCHANGED << sdkVars, connection, capability, derivedEvmAddress, swaps,
                    currentSwapStatus, pendingHistory, historyLoads,
                    resetTimers, now, attempts, flow >>

(***************************************************************************)
(* The specification.                                                      *)
(***************************************************************************)
\* no encoder has been called
CodecIdle ==
    /\ codecPayload = None
    /\ codecField = "none"
    /\ codecOutput = None
    /\ codecDecoded = None

\* no pure function has been called
FnIdle ==
    /\ fnArgs = None
    /\ fnResult = None

\* the page as mounted: direction OCT_TO_ETH, an empty amount field, no quote
PageIdle ==
    /\ swapDirection = "OCT_TO_ETH"
    /\ amountIn = << >>
    /\ quote = None
    /\ quoteError = None
    /\ quoteTimer = None
    /\ quoteRequests = {}
    /\ quoteFetches = 0

\* no polling function has been invoked
WatchIdle ==
    /\ wKind = "none"
    /\ wPc = "idle"
    /\ wClock = 0
    /\ wStart = 0
    /\ wInitialEpoch = None
    /\ wResult = None
    /\ wQueries = 0
    /\ wObserved = << >>
    /\ wCalls = << >>
    /\ wScenario = [epoch0 |-> None, epochFailed |-> FALSE, epochSteps |-> 0,
                    pollsAfterChange |-> 0]

AppInit ==
    /\ connection = None
    /\ capability = FALSE
    /\ derivedEvmAddress = None
    /\ swaps = << >>
    /\ currentSwapStatus = "idle"
    /\ errors = << >>
    /\ pendingHistory = 0
    /\ historyLoads = 0
    /\ resetTimers = 0
    /\ now = 0
    /\ attempts = 0
    /\ flow = [f \in Attempts |-> UnusedFlow]

Init ==
    /\ AppInit
    /\ WatchIdle
    /\ PageIdle
    /\ chainEpoch = 0
    /\ CodecIdle
    /\ FnIdle

Next ==
    \/ \E d \in Directions : \E q \in QuoteProps(d) : ExecuteSwap(d, q)
    \/ \E f \in Attempts, r \in InvokeResults : SignReturn(f, r)
    \/ \E f \in Attempts : EncodeReturn(f)
    \/ \E f \in Attempts, r \in InvokeResults : SendReturn(f, r)
    \/ \E f \in Attempts, o \in WatcherOutcomes("OCT_TO_ETH") : ConfirmReturn(f, o)
    \/ \E f \in Attempts, r \in SubmitResults : SubmitReturn(f, r)
    \/ \E f \in Attempts, res \in StatusResponses : PollReturn(f, res)
    \/ \E f \in Attempts, m \in PollThrows : PollThrow(f, m)
    \/ ResetTimerFires
    \/ \E conn \in WalletAccounts : HandleConnect(conn)
    \/ HandleAuthorize
    \/ \E h \in BackendHistories : LoadSwapHistoryReturn(h)
    \/ LoadSwapHistoryFails
    \/ HandleDisconnect
    \/ ClearErrors

Spec == Init /\ [][Next]_vars

\* a timer that was set fires
SpecFair == Spec /\ WF_vars(ResetTimerFires)


(***************************************************************************)
(* The polling functions of sdk/intents.ts, one invocation on its own:     *)
(* waitForOctraTxConfirmation (epoch-based watcher),                       *)
(* waitForSepoliaTxConfirmation (direct-status watcher) and                *)
(* waitForFulfillment.  An action is the code between two awaits.          *)
(***************************************************************************)
WatchKinds == {"octra", "sepolia", "fulfillment"}
Delays == 0..MaxDelay

\* what a status query can answer, as { found, status }; a query that threw
\* is [found |-> FALSE, status |-> "error"]
QueryError == [found |-> FALSE, status |-> "error"]

\* getOctraTxStatus: a non-ok response or a network error is swallowed
OctraAnswers ==
    { [found |-> TRUE, status |-> "pending"],
      [found |-> TRUE, status |-> "confirmed"],
      [found |-> TRUE, status |-> "failed"],
      [found |-> FALSE, status |-> "unknown"] }

\* GET /sepolia/tx/:hash/status, or the fetch throws
SepoliaAnswers ==
    { [found |-> TRUE, status |-> "pending"],
      [found |-> TRUE, status |-> "confirmed"],
      [found |-> TRUE, status |-> "failed"],
      [found |-> FALSE, status |-> "pending"],
      [found |-> FALSE, status |-> "confirmed"],
      QueryError }

\* getIntentStatus: the body's status, or it throws on a non-ok response
IntentAnswers ==
    { [found |-> TRUE, status |-> "OPEN"],
      [found |-> TRUE, status |-> "FULFILLED"],
      [found |-> TRUE, status |-> "EXPIRED"],
      [found |-> TRUE, status |-> "REJECTED"],
      QueryError }

AnswersOf(kind) ==
    CASE kind = "octra" -> OctraAnswers
      [] kind = "sepolia" -> SepoliaAnswers
      [] OTHER -> IntentAnswers

\* data.current_epoch || data.epoch || null
EpochOf(e) == IF e = 0 THEN None ELSE Some(e)

\* getCurrentEpoch(): null when the request fails
getCurrentEpoch(ok) == IF ok THEN EpochOf(chainEpoch) ELSE None

StatusCheckFailedMessage == "Status check failed: 500"

\* faulty variant: every polling function returns on timeout
TimeoutEnd_AlwaysReturns(kind) == [pc |-> "returned", result |-> "timeout"]

\* how an invocation ends when the while condition fails
TimeoutEnd(kind) ==
    IF kind = "fulfillment"
    THEN [pc |-> "threw", result |-> FulfillmentTimeoutMessage]
    ELSE [pc |-> "returned", result |-> "timeout"]

\* while (Date.now() - startTime < timeoutMs) { await <status query> ...
LoopTop(kind, clock, start) ==
    IF clock - start < WatchTimeout
    THEN /\ wPc' = "query"
         /\ wQueries' = wQueries + 1
         /\ wResult' = wResult
    ELSE /\ wPc' = TimeoutEnd(kind).pc
         /\ wQueries' = wQueries
         /\ wResult' = Some(TimeoutEnd(kind).result)

\* return { confirmed, status } / return status
Return(result) ==
    /\ wPc' = "returned"
    /\ wResult' = Some(result)

\* the invocation, up to its first await
WatchStart(kind) ==
    /\ wPc = "idle"
    /\ wKind' = kind
    /\ wStart' = wClock
    /\ IF kind = "octra"
       THEN /\ wPc' = "initial_epoch"
            /\ UNCHANGED << wQueries, wResult >>
       ELSE LoopTop(kind, wClock, wClock)
    /\ UNCHANGED << appVars, pageVars, codecVars, fnVars, wClock, wInitialEpoch, wObserved, wCalls,
                    wScenario, chainEpoch >>

\* waitForOctraTxConfirmation after await getCurrentEpoch() before the loop
InitialEpochReturn(ok, d) ==
    /\ wPc = "initial_epoch"
    /\ wClock' = wClock + d
    /\ wInitialEpoch' = getCurrentEpoch(ok)
    /\ wScenario' = [wScenario EXCEPT !.epoch0 = Some(chainEpoch),
                                      !.epochFailed = @ \/ ~ok]
    /\ LoopTop(wKind, wClock + d, wStart)
    /\ UNCHANGED << appVars, pageVars, codecVars, fnVars, wKind, wStart, wObserved, wCalls, chainEpoch >>

\* waitForOctraTxConfirmation after await getOctraTxStatus(txHash) in the loop
OctraStatusReturn(a, d) ==
    /\ wKind = "octra"
    /\ wPc = "query"
    /\ wClock' = wClock + d
    /\ wObserved' = Append(wObserved, a)
    /\ wCalls' = Append(wCalls, a.status)
    /\ IF a.status = "confirmed"
       THEN Return("confirmed")
       ELSE IF a.status = "failed"
            THEN Return("failed")
            ELSE wPc' = "epoch" /\ wResult' = wResult
    /\ UNCHANGED << appVars, pageVars, codecVars, fnVars, wKind, wStart, wInitialEpoch, wQueries,
                    wScenario, chainEpoch >>

\* faulty variant: an unchanged epoch counts as changed
EpochChanged_SameEpoch(initialEpoch, currentEpoch) ==
    /\ initialEpoch # None
    /\ currentEpoch # None
    /\ currentEpoch[1] >= initialEpoch[1]

\* if (initialEpoch !== null && currentEpoch !== null && currentEpoch > initialEpoch)
EpochChanged(initialEpoch, currentEpoch) ==
    /\ initialEpoch # None
    /\ currentEpoch # None
    /\ currentEpoch[1] > initialEpoch[1]

\* waitForOctraTxConfirmation after await getCurrentEpoch() in the loop
OctraEpochReturn(ok, d) ==
    /\ wKind = "octra"
    /\ wPc = "epoch"
    /\ wClock' = wClock + d
    /\ wScenario' = [wScenario EXCEPT
           !.epochFailed = @ \/ ~ok,
           !.pollsAfterChange =
               IF ok /\ chainEpoch > wScenario.epoch0[1] THEN @ + 1 ELSE @]
    /\ IF EpochChanged(wInitialEpoch, getCurrentEpoch(ok))
       THEN wPc' = "final" /\ wQueries' = wQueries + 1
       ELSE wPc' = "sleep" /\ wQueries' = wQueries
    /\ UNCHANGED << appVars, pageVars, codecVars, fnVars, wKind, wStart, wInitialEpoch, wResult,
                    wObserved, wCalls, chainEpoch >>

\* waitForOctraTxConfirmation after await getOctraTxStatus(txHash): finalCheck
OctraFinalReturn(a, d) ==
    /\ wKind = "octra"
    /\ wPc = "final"
    /\ wClock' = wClock + d
    /\ wObserved' = Append(wObserved, a)
    /\ IF a.status = "confirmed"
       THEN Return("confirmed")
       ELSE Return("epoch_missed")
    /\ UNCHANGED << appVars, pageVars, codecVars, fnVars, wKind, wStart, wInitialEpoch, wQueries, wCalls,
                    wScenario, chainEpoch >>

\* faulty variant: found is not looked at
SepoliaConfirmed_IgnoresFound(a) == a.status = "confirmed"

\* if (data.found && data.status === 'confirmed')
SepoliaConfirmed(a) == a.found /\ a.status = "confirmed"

\* if (data.found && data.status === 'failed')
SepoliaFailed(a) == a.found /\ a.status = "failed"

\* faulty variant: a query error ends the wait as failed
SepoliaStatusReturn_ErrorFatal(a, d) ==
    /\ wKind = "sepolia"
    /\ wPc = "query"
    /\ wClock' = wClock + d
    /\ wObserved' = Append(wObserved, a)
    /\ IF a = QueryError \/ SepoliaFailed(a)
       THEN wCalls' = Append(wCalls, "failed") /\ Return("failed")
       ELSE IF SepoliaConfirmed(a)
            THEN wCalls' = Append(wCalls, "confirmed") /\ Return("confirmed")
            ELSE /\ wCalls' = Append(wCalls, "pending")
                 /\ wPc' = "sleep" /\ wResult' = wResult
    /\ UNCHANGED << appVars, pageVars, codecVars, fnVars, wKind, wStart, wInitialEpoch, wQueries,
                    wScenario, chainEpoch >>

\* waitForSepoliaTxConfirmation after the awaits of its try block (the fetch
\* and response.json()), or in its catch block
SepoliaStatusReturn(a, d) ==
    /\ wKind = "sepolia"
    /\ wPc = "query"
    /\ wClock' = wClock + d
    /\ wObserved' = Append(wObserved, a)
    /\ IF a = QueryError
       THEN wCalls' = wCalls /\ wPc' = "sleep" /\ wResult' = wResult
       ELSE IF SepoliaConfirmed(a)
            THEN wCalls' = Append(wCalls, "confirmed") /\ Return("confirmed")
            ELSE IF SepoliaFailed(a)
                 THEN wCalls' = Append(wCalls, "failed") /\ Return("failed")
                 ELSE /\ wCalls' = Append(wCalls, "pending")
                      /\ wPc' = "sleep" /\ wResult' = wResult
    /\ UNCHANGED << appVars, pageVars, codecVars, fnVars, wKind, wStart, wInitialEpoch, wQueries,
                    wScenario, chainEpoch >>

\* if (status === 'FULFILLED' || status === 'EXPIRED' || status === 'REJECTED')
IsTerminalIntentStatus(status) == status \in {"FULFILLED", "EXPIRED", "REJECTED"}

\* faulty variant: a lookup error is swallowed and the poll goes on
FulfillmentStatusReturn_SwallowsError(a, d) ==
    /\ wKind = "fulfillment"
    /\ wPc = "query"
    /\ wClock' = wClock + d
    /\ wObserved' = Append(wObserved, a)
    /\ IF a = QueryError
       THEN wCalls' = wCalls /\ wPc' = "sleep" /\ wResult' = wResult
       ELSE /\ wCalls' = Append(wCalls, a.status)
            /\ IF IsTerminalIntentStatus(a.status)
               THEN Return(a.status)
               ELSE wPc' = "sleep" /\ wResult' = wResult
    /\ UNCHANGED << appVars, pageVars, codecVars, fnVars, wKind, wStart, wInitialEpoch, wQueries,
                    wScenario, chainEpoch >>

\* waitForFulfillment after await getIntentStatus(intentId), which may throw
FulfillmentStatusReturn(a, d) ==
    /\ wKind = "fulfillment"
    /\ wPc = "query"
    /\ wClock' = wClock + d
    /\ wObserved' = Append(wObserved, a)
    /\ IF a = QueryError
       THEN /\ wCalls' = wCalls
            /\ wPc' = "threw" /\ wResult' = Some(StatusCheckFailedMessage)
       ELSE /\ wCalls' = Append(wCalls, a.status)
            /\ IF IsTerminalIntentStatus(a.status)
               THEN Return(a.status)
               ELSE wPc' = "sleep" /\ wResult' = wResult
    /\ UNCHANGED << appVars, pageVars, codecVars, fnVars, wKind, wStart, wInitialEpoch, wQueries,
                    wScenario, chainEpoch >>

\* faulty variant: the sleep's promise is never resolved
SleepReturn_NeverResolves ==
    /\ wPc = "sleep"
    /\ UNCHANGED vars

\* after await new Promise((resolve) => setTimeout(resolve, pollIntervalMs)),
\* back at the while condition
SleepReturn ==
    /\ wPc = "sleep"
    /\ wClock' = wClock + PollInterval
    /\ LoopTop(wKind, wClock + PollInterval, wStart)
    /\ UNCHANGED << appVars, pageVars, codecVars, fnVars, wKind, wStart, wInitialEpoch, wObserved, wCalls,
                    wScenario, chainEpoch >>

\* the chain moves to its next epoch while the epoch-based watcher runs
ChainAdvance ==
    /\ wKind = "octra"
    /\ wPc \in {"query", "epoch", "sleep"}
    /\ wScenario.epochSteps < MaxEpochSteps
    /\ chainEpoch' = chainEpoch + 1
    /\ wScenario' = [wScenario EXCEPT !.epochSteps = @ + 1]
    /\ UNCHANGED << appVars, pageVars, codecVars, fnVars, wKind, wPc, wClock, wStart, wInitialEpoch,
                    wResult, wQueries, wObserved, wCalls >>

WatchInit ==
    /\ AppInit
    /\ WatchIdle
    /\ PageIdle
    /\ chainEpoch \in 0..MaxEpoch0
    /\ CodecIdle
    /\ FnIdle

\* the steps of the invocation itself
WatchStep ==
    \/ \E ok \in BOOLEAN, d \in Delays : InitialEpochReturn(ok, d)
    \/ \E a \in OctraAnswers, d \in Delays : OctraStatusReturn(a, d)
    \/ \E ok \in BOOLEAN, d \in Delays : OctraEpochReturn(ok, d)
    \/ \E a \in OctraAnswers, d \in Delays : OctraFinalReturn(a, d)
    \/ \E a \in SepoliaAnswers, d \in Delays : SepoliaStatusReturn(a, d)
    \/ \E a \in IntentAnswers, d \in Delays : FulfillmentStatusReturn(a, d)
    \/ SleepReturn

WatchNext ==
    \/ \E kind \in WatchKinds : WatchStart(kind)
    \/ WatchStep
    \/ ChainAdvance

SpecWatch == WatchInit /\ [][WatchNext]_vars

\* every query completes and every sleep ends
SpecWatchFair == SpecWatch /\ WF_vars(WatchStep)

(***************************************************************************)
(* The store under concurrent writers: swap flows that add their record    *)
(* and update it under their own id in any interleaving, and the list      *)
(* being replaced under them.                                              *)
(***************************************************************************)
\* the updates a swap flow passes to updateSwap
FlowUpdates ==
    { [status |-> st] : st \in {"sending", "confirming", "polling"} }
      \cup { [intentId |-> Some(<< "intent", 1 >>)],
             [sourceTxHash |-> Some(<< "tx", 1 >>), octraTxHash |-> Some(<< "tx", 1 >>)],
             [status |-> "failed", error |-> Some("Failed to sign intent")],
             [status |-> "fulfilled", targetTxHash |-> Some("0xpayout"),
              amountOut |-> Some(5), fulfilledAt |-> Some(1)] }

\* addSwap(swapRecord) of a new executeSwap invocation
StoreAddSwap(d) ==
    /\ attempts < MaxAttempts
    /\ attempts' = attempts + 1
    /\ LET addr == IF d = "OCT_TO_ETH" THEN EvmMixed ELSE OctGood
           payload == BuildPayload(d, BackendQuote(d), addr, now, Nonce(attempts + 1))
       IN  swaps' = addSwap(swaps, SwapRecord(SwapId(attempts + 1), d, payload, now))
    /\ UNCHANGED << sdkVars, connection, capability, derivedEvmAddress,
                    currentSwapStatus, errors, pendingHistory, historyLoads,
                    resetTimers, now, flow >>

\* updateSwap(swapId, updates) of the flow that owns swapId
StoreUpdateSwap(f, updates) ==
    /\ f <= attempts
    /\ swaps' = updateSwap(swaps, SwapId(f), updates)
    /\ UNCHANGED << sdkVars, connection, capability, derivedEvmAddress,
                    currentSwapStatus, errors, pendingHistory, historyLoads,
                    resetTimers, now, attempts, flow >>

\* setSwaps(list): a history load resolves, or the wallet is disconnected
StoreSetSwaps(history) ==
    /\ swaps' = [i \in 1..Len(history) |-> HistoryRecord(history[i])]
    /\ UNCHANGED << sdkVars, connection, capability, derivedEvmAddress,
                    currentSwapStatus, errors, pendingHistory, historyLoads,
                    resetTimers, now, attempts, flow >>

StoreNext ==
    \/ \E d \in Directions : StoreAddSwap(d)
    \/ \E f \in Attempts, u \in FlowUpdates : StoreUpdateSwap(f, u)
    \/ \E h \in BackendHistories : StoreSetSwaps(h)

SpecStore == Init /\ [][StoreNext]_vars

(***************************************************************************)
(* The envelope encoders of sdk/intents.ts.  Text is a sequence of one-    *)
(* character strings; "EACUTE" stands for U+00E9 (in Latin-1, outside      *)
(* ASCII) and "EURO" for U+20AC (outside Latin-1).                         *)
(***************************************************************************)
\* the characters with codes 32..126, in code order ("BACKTICK" is code 96)
AsciiPrintable ==
    << " ", "!", "\"", "#", "$", "%", "&", "'", "(", ")", "*", "+",
       ",", "-", ".", "/", "0", "1", "2", "3", "4", "5", "6", "7",
       "8", "9", ":", ";", "<", "=", ">", "?", "@", "A", "B", "C",
       "D", "E", "F", "G", "H", "I", "J", "K", "L", "M", "N", "O",
       "P", "Q", "R", "S", "T", "U", "V", "W", "X", "Y", "Z", "[",
       "\\", "]", "^", "_", "BACKTICK", "a", "b", "c", "d", "e", "f", "g",
       "h", "i", "j", "k", "l", "m", "n", "o", "p", "q", "r", "s",
       "t", "u", "v", "w", "x", "y", "z", "{", "|", "}", "~" >>

\* String.prototype.charCodeAt
CodeOf(c) ==
    CASE c = "EACUTE" -> 233
      [] c = "EURO" -> 8364
      [] OTHER -> 31 + (CHOOSE i \in 1..Len(AsciiPrintable) : AsciiPrintable[i] = c)

\* String.fromCharCode, for the codes of the model's characters
CharOf(code) ==
    CASE code = 233 -> "EACUTE"
      [] code = 8364 -> "EURO"
      [] OTHER -> AsciiPrintable[code - 31]

Base64Alphabet ==
    << "A", "B", "C", "D", "E", "F", "G", "H", "I", "J", "K", "L", "M",
       "N", "O", "P", "Q", "R", "S", "T", "U", "V", "W", "X", "Y", "Z",
       "a", "b", "c", "d", "e", "f", "g", "h", "i", "j", "k", "l", "m",
       "n", "o", "p", "q", "r", "s", "t", "u", "v", "w", "x", "y", "z",
       "0", "1", "2", "3", "4", "5", "6", "7", "8", "9", "+", "/" >>

\* the concatenation of a sequence of sequences
RECURSIVE Concat(_)
Concat(seqs) ==
    IF Len(seqs) = 0 THEN << >>
    ELSE IF Len(seqs) = 1 THEN seqs[1]
    ELSE LET half == Len(seqs) \div 2
         IN  Concat(SubSeq(seqs, 1, half)) \o Concat(SubSeq(seqs, half + 1, Len(seqs)))

\* the base64 text of a byte sequence: four characters for each group of
\* one to three bytes
Base64Encode(bytes) ==
    LET Group(g) ==
            LET last == IF 3 * g <= Len(bytes) THEN 3 * g ELSE Len(bytes)
                size == last - (3 * g - 3)
                b1 == bytes[3 * g - 2]
                b2 == IF size >= 2 THEN bytes[3 * g - 1] ELSE 0
                b3 == IF size >= 3 THEN bytes[3 * g] ELSE 0
                n == b1 * 65536 + b2 * 256 + b3
                c1 == Base64Alphabet[(n \div 262144) + 1]
                c2 == Base64Alphabet[((n \div 4096) % 64) + 1]
                c3 == IF size >= 2 THEN Base64Alphabet[((n \div 64) % 64) + 1] ELSE "="
                c4 == IF size >= 3 THEN Base64Alphabet[(n % 64) + 1] ELSE "="
            IN  << c1, c2, c3, c4 >>
    IN  Concat([g \in 1..((Len(bytes) + 2) \div 3) |-> Group(g)])

\* the bytes of a base64 text: one to three bytes for each four characters
Base64Decode(text) ==
    LET Index(c) == IF c = "=" THEN 0
                    ELSE (CHOOSE i \in 1..64 : Base64Alphabet[i] = c) - 1
        Ungroup(g) ==
            LET c3 == text[4 * g - 1]
                c4 == text[4 * g]
                n == Index(text[4 * g - 3]) * 262144 + Index(text[4 * g - 2]) * 4096
                         + Index(c3) * 64 + Index(c4)
            IN  IF c3 = "=" THEN << n \div 65536 >>
                ELSE IF c4 = "=" THEN << n \div 65536, (n \div 256) % 256 >>
                ELSE << n \div 65536, (n \div 256) % 256, n % 256 >>
    IN  Concat([g \in 1..(Len(text) \div 4) |-> Ungroup(g)])

\* btoa throws InvalidCharacterError when a character is outside Latin-1
btoaThrows(text) == \E i \in 1..Len(text) : CodeOf(text[i]) > 255

\* btoa(text) for a text it accepts: each character is one byte
btoa(text) == Base64Encode([i \in 1..Len(text) |-> CodeOf(text[i])])

\* atob(text): each byte becomes one character
atob(text) ==
    LET bytes == Base64Decode(text)
    IN  [i \in 1..Len(bytes) |-> CharOf(bytes[i])]

HexDigitChars == << "0", "1", "2", "3", "4", "5", "6", "7",
                    "8", "9", "a", "b", "c", "d", "e", "f" >>

\* Array.from(bytes).map(b => b.toString(16).padStart(2, '0')).join('')
HexEncode(bytes) ==
    Concat([i \in 1..Len(bytes) |->
               << HexDigitChars[(bytes[i] \div 16) + 1], HexDigitChars[(bytes[i] % 16) + 1] >>])

\* new TextEncoder().encode(text): UTF-8
Utf8Encode(text) ==
    LET Bytes(c) ==
            IF c < 128 THEN << c >>
            ELSE IF c < 2048 THEN << 192 + (c \div 64), 128 + (c % 64) >>
            ELSE << 224 + (c \div 4096), 128 + ((c \div 64) % 64), 128 + (c % 64) >>
    IN  Concat([i \in 1..Len(text) |-> Bytes(CodeOf(text[i]))])

\* the characters of the fixed strings of payloads and envelopes
TextOf(s) ==
    CASE s = "swap" -> << "s", "w", "a", "p" >>
      [] s = "OCT" -> << "O", "C", "T" >>
      [] s = "ETH" -> << "E", "T", "H" >>
      [] s = "ethereum_sepolia" -> << "e", "t", "h", "e", "r", "e", "u", "m", "_", "s", "e", "p", "o", "l", "i", "a" >>
      [] s = "octra_mainnet" -> << "o", "c", "t", "r", "a", "_", "m", "a", "i", "n", "n", "e", "t" >>
      [] s = "version" -> << "v", "e", "r", "s", "i", "o", "n" >>
      [] s = "intentType" -> << "i", "n", "t", "e", "n", "t", "T", "y", "p", "e" >>
      [] s = "fromAsset" -> << "f", "r", "o", "m", "A", "s", "s", "e", "t" >>
      [] s = "toAsset" -> << "t", "o", "A", "s", "s", "e", "t" >>
      [] s = "amountIn" -> << "a", "m", "o", "u", "n", "t", "I", "n" >>
      [] s = "minAmountOut" -> << "m", "i", "n", "A", "m", "o", "u", "n", "t", "O", "u", "t" >>
      [] s = "targetChain" -> << "t", "a", "r", "g", "e", "t", "C", "h", "a", "i", "n" >>
      [] s = "targetAddress" -> << "t", "a", "r", "g", "e", "t", "A", "d", "d", "r", "e", "s", "s" >>
      [] s = "expiry" -> << "e", "x", "p", "i", "r", "y" >>
      [] s = "nonce" -> << "n", "o", "n", "c", "e" >>
      [] s = "v" -> << "v" >>
      [] s = "payload" -> << "p", "a", "y", "l", "o", "a", "d" >>
      [] s = "hash" -> << "h", "a", "s", "h" >>
      [] s = "timestamp" -> << "t", "i", "m", "e", "s", "t", "a", "m", "p" >>
      [] s = "uuid-" -> << "u", "u", "i", "d", "-" >>

\* a JSON value: a number, a string or an object (its members in order)
JNumber(n) == [t |-> "number", n |-> n, s |-> << >>, o |-> << >>]
JString(text) == [t |-> "string", n |-> 0, s |-> text, o |-> << >>]
JObject(members) == [t |-> "object", n |-> 0, s |-> << >>, o |-> members]
Member(key, value) == [k |-> key, v |-> value]

DigitChars == << "0", "1", "2", "3", "4", "5", "6", "7", "8", "9" >>

\* the decimal text of a non-negative integer
RECURSIVE NumberText(_)
NumberText(n) ==
    IF n < 10 THEN << DigitChars[n + 1] >>
    ELSE NumberText(n \div 10) \o << DigitChars[(n % 10) + 1] >>

\* the characters of a JSON string literal: quote and backslash are escaped
EscapeText(text) ==
    Concat([i \in 1..Len(text) |->
               IF text[i] \in {"\"", "\\"} THEN << "\\", text[i] >> ELSE << text[i] >>])

\* JSON.stringify(value)
RECURSIVE JsonStringify(_)
RECURSIVE MembersText(_)
MembersText(members) ==
    IF Len(members) = 0 THEN << >>
    ELSE << "\"" >> \o EscapeText(members[1].k) \o << "\"", ":" >>
             \o JsonStringify(members[1].v)
             \o (IF Len(members) > 1 THEN << "," >> \o MembersText(Tail(members))
                 ELSE << >>)

JsonStringify(value) ==
    CASE value.t = "number" -> NumberText(value.n)
      [] value.t = "string" -> << "\"" >> \o EscapeText(value.s) \o << "\"" >>
      [] OTHER -> << "{" >> \o MembersText(value.o) \o << "}" >>

\* the payload object literal of the builders, in the order of its keys
PayloadJson(payload) ==
    JObject(<< Member(TextOf("version"), JNumber(payload.version)),
               Member(TextOf("intentType"), JString(TextOf(payload.intentType))),
               Member(TextOf("fromAsset"), JString(TextOf(payload.fromAsset))),
               Member(TextOf("toAsset"), JString(TextOf(payload.toAsset))),
               Member(TextOf("amountIn"), JNumber(payload.amountIn)),
               Member(TextOf("minAmountOut"), JNumber(payload.minAmountOut)),
               Member(TextOf("targetChain"), JString(TextOf(payload.targetChain))),
               Member(TextOf("targetAddress"), JString(payload.targetAddress)),
               Member(TextOf("expiry"), JNumber(payload.expiry)),
               Member(TextOf("nonce"),
                      JString(TextOf("uuid-") \o NumberText(payload.nonce[2]))) >>)

\* the sum of f[lo..hi] modulo m
RECURSIVE SumMod(_, _, _, _)
SumMod(f, lo, hi, m) ==
    IF lo > hi THEN 0
    ELSE IF lo = hi THEN f[lo] % m
    ELSE LET mid == (lo + hi) \div 2
         IN  (SumMod(f, lo, mid, m) + SumMod(f, mid + 1, hi, m)) % m

\* crypto.subtle.digest('SHA-256', data) rendered as hex.  SHA-256 is
\* represented by a 16-bit digest that weighs every byte by its position.
Sha256Hex(bytes) ==
    LET weight(i) == 1 + ((31 * i * i + 17 * i) % 65521)
        h == SumMod([i \in 1..Len(bytes) |-> (bytes[i] + 1) * weight(i)],
                    1, Len(bytes), 65521)
    IN  HexEncode(<< h \div 256, h % 256 >>)

\* hashPayload(payload)
hashPayload(payloadJson) == Sha256Hex(Utf8Encode(JsonStringify(payloadJson)))

\* { v: 2, payload, hash, timestamp: Date.now() }
Envelope(payloadJson, t) ==
    JObject(<< Member(TextOf("v"), JNumber(2)),
               Member(TextOf("payload"), payloadJson),
               Member(TextOf("hash"), JString(hashPayload(payloadJson))),
               Member(TextOf("timestamp"), JNumber(t)) >>)

\* encodeIntentForOctraTx: btoa(JSON.stringify(envelope))
EnvelopeBase64(payloadJson, t) == btoa(JsonStringify(Envelope(payloadJson, t)))

\* faulty variant: the envelope carries the hash of the envelope's time
\* instead of the hash of the payload
encodeIntentForOctraTx_HashOfTime(payloadJson, t) ==
    btoa(JsonStringify(JObject(<< Member(TextOf("v"), JNumber(2)),
                                  Member(TextOf("payload"), payloadJson),
                                  Member(TextOf("hash"), JString(hashPayload(JNumber(t)))),
                                  Member(TextOf("timestamp"), JNumber(t)) >>)))

encodeIntentForOctraTx(payloadJson, t) == EnvelopeBase64(payloadJson, t)

\* encodeIntentPayloadAsHex: '0x' + hex of the UTF-8 bytes of the base64 text
encodeIntentPayloadAsHex(payloadJson, t) ==
    << "0", "x" >> \o HexEncode(Utf8Encode(EnvelopeBase64(payloadJson, t)))

\* both encoders throw where btoa throws
encodeThrows(payloadJson, t) == btoaThrows(JsonStringify(Envelope(payloadJson, t)))

\* the digits at the head of a text, as a number
RECURSIVE ParseNumber(_, _)
ParseNumber(text, acc) ==
    IF Len(text) > 0 /\ \E d \in 1..10 : DigitChars[d] = text[1]
    THEN ParseNumber(Tail(text), acc * 10 + (CHOOSE d \in 1..10 : DigitChars[d] = text[1]) - 1)
    ELSE [v |-> JNumber(acc), rest |-> text]

\* a string literal whose opening quote has been read
RECURSIVE ParseString(_, _)
ParseString(text, acc) ==
    IF text[1] = "\"" THEN [v |-> JString(acc), rest |-> Tail(text)]
    ELSE IF text[1] = "\\" THEN ParseString(SubSeq(text, 3, Len(text)), Append(acc, text[2]))
    ELSE ParseString(Tail(text), Append(acc, text[1]))

\* JSON.parse, for the texts JSON.stringify writes
RECURSIVE ParseValue(_)
RECURSIVE ParseMembers(_, _)
ParseMembers(text, acc) ==
    IF text[1] = "}" THEN [v |-> JObject(acc), rest |-> Tail(text)]
    ELSE LET start == IF text[1] = "," THEN Tail(text) ELSE text
             key == ParseString(Tail(start), << >>)
             value == ParseValue(Tail(key.rest))
         IN  ParseMembers(value.rest, Append(acc, Member(key.v.s, value.v)))

ParseValue(text) ==
    CASE text[1] = "\"" -> ParseString(Tail(text), << >>)
      [] text[1] = "{" -> ParseMembers(Tail(text), << >>)
      [] OTHER -> ParseNumber(text, 0)

JsonParse(text) == ParseValue(text).v

\* obj[key]
JGet(obj, key) ==
    obj.o[CHOOSE i \in 1..Len(obj.o) : obj.o[i].k = TextOf(key)].v

\* the receiver of an Octra message: JSON.parse(atob(message))
decodeOctraMessage(message) == JsonParse(atob(message))

\* the receiver of an EVM data field: strip 0x, hex-decode, read the bytes
\* as text, then as above
decodeEvmData(data) ==
    LET hex == SubSeq(data, 3, Len(data))
        Value(c) == (CHOOSE i \in 1..16 : HexDigitChars[i] = c) - 1
        bytes == [i \in 1..(Len(hex) \div 2) |->
                     Value(hex[2 * i - 1]) * 16 + Value(hex[2 * i])]
        base64String == [i \in 1..Len(bytes) |-> CharOf(bytes[i])]
    IN  JsonParse(atob(base64String))

(***************************************************************************)
(* The encoders applied to built payloads.  A payload is drawn from what   *)
(* the two builders return; an encoder is applied to it, and the receiver  *)
(* decodes what the encoder returned.                                      *)
(***************************************************************************)
OctEacute == << "o", "c", "t", "EACUTE", "1" >>

EvmTargets == {EvmMixed, <<"0", "x">> \o Rep("9", EvmHexDigits)}
OctTargets == {OctGood, OctEuro, OctEacute, << "o", "c", "t", "\"", "\\" >>}

QuoteAmounts == {<<"number", 10>>, <<"number", 0>>, <<"string", "9">>}

BuiltPayloads ==
    LET quotes == [amountIn : QuoteAmounts, minAmountOut : QuoteAmounts]
    IN  { createIntentPayload(q, a, t, <<"uuid", n>>) :
              q \in quotes, a \in EvmTargets, t \in 0..MaxCodecTime, n \in 1..MaxNonce }
        \cup
        { createEthToOctIntentPayload(q, a, t, <<"uuid", n>>) :
              q \in quotes, a \in OctTargets, t \in 0..MaxCodecTime, n \in 1..MaxNonce }

\* encodeIntentForOctraTx(payload) / encodeIntentPayloadAsHex(payload) at time t
Encode(field, t) ==
    /\ codecPayload # None
    /\ codecOutput = None
    /\ LET json == PayloadJson(codecPayload[1])
       IN  codecOutput' =
               Some(IF encodeThrows(json, t)
                    THEN [threw |-> TRUE, text |-> << >>]
                    ELSE [threw |-> FALSE,
                          text |-> IF field = "message"
                                   THEN encodeIntentForOctraTx(json, t)
                                   ELSE encodeIntentPayloadAsHex(json, t)])
    /\ codecField' = field
    /\ UNCHANGED << appVars, pageVars, watchVars, fnVars, codecPayload, codecDecoded >>

\* the receiver decodes the field it was sent
Decode ==
    /\ codecOutput # None
    /\ ~codecOutput[1].threw
    /\ codecDecoded = None
    /\ codecDecoded' = Some(IF codecField = "message"
                            THEN decodeOctraMessage(codecOutput[1].text)
                            ELSE decodeEvmData(codecOutput[1].text))
    /\ UNCHANGED << appVars, pageVars, watchVars, fnVars, codecPayload, codecField, codecOutput >>

EnvelopeInit ==
    /\ AppInit
    /\ WatchIdle
    /\ PageIdle
    /\ chainEpoch = 0
    /\ codecPayload \in {Some(p) : p \in BuiltPayloads}
    /\ codecField = "none"
    /\ codecOutput = None
    /\ codecDecoded = None
    /\ FnIdle

EnvelopeNext ==
    \/ \E field \in {"message", "data"}, t \in 0..MaxCodecTime : Encode(field, t)
    \/ Decode

SpecEnvelope == EnvelopeInit /\ [][EnvelopeNext]_vars

(***************************************************************************)
(* hashPayload applied to one payload written down twice: as the builder   *)
(* wrote it, and as another implementation holds it, with the same members *)
(* in another order.                                                       *)
(***************************************************************************)
\* the object with its i-th and (i+1)-th members exchanged
MoveKey(object, i) ==
    JObject([j \in 1..Len(object.o) |->
                IF j = i THEN object.o[i + 1]
                ELSE IF j = i + 1 THEN object.o[i]
                ELSE object.o[j]])

\* the other implementation's object has two neighbouring keys exchanged
ReorderKeys(i) ==
    /\ fnArgs # None
    /\ fnResult = None
    /\ fnArgs[1].moves < MaxKeyMoves
    /\ i \in 1..(Len(fnArgs[1].other.o) - 1)
    /\ fnArgs' = Some([fnArgs[1] EXCEPT !.other = MoveKey(@, i), !.moves = @ + 1])
    /\ UNCHANGED << appVars, pageVars, watchVars, codecVars, fnResult >>

\* both sides compute hashPayload of their object
HashBoth ==
    /\ fnArgs # None
    /\ fnResult = None
    /\ fnResult' = Some([payload |-> hashPayload(fnArgs[1].payload),
                         other |-> hashPayload(fnArgs[1].other)])
    /\ UNCHANGED << appVars, pageVars, watchVars, codecVars, fnArgs >>

HashInit ==
    /\ AppInit
    /\ WatchIdle
    /\ PageIdle
    /\ chainEpoch = 0
    /\ CodecIdle
    /\ fnArgs \in {Some([payload |-> PayloadJson(p), other |-> PayloadJson(p), moves |-> 0]) :
                      p \in BuiltPayloads}
    /\ fnResult = None

HashNext ==
    \/ \E i \in 1..9 : ReorderKeys(i)
    \/ HashBoth

SpecHash == HashInit /\ [][HashNext]_vars

(***************************************************************************)
(* Amount codec: formatAmountSafe (sdk/intents.ts) and formatAmount,       *)
(* parseAmount (lib/format).  A number is NaN, an infinity, or the decimal *)
(* m * 10^e with a sign; its digits are handled as text, never as one      *)
(* integer.  The finite numbers drawn are those whose double agrees with   *)
(* the decimal in the first 18 fractional digits: integers, and values     *)
(* below 0.001.                                                            *)
(***************************************************************************)
Finite(neg, m, e) == [kind |-> "finite", neg |-> neg, m |-> m, e |-> e]
NaN == [kind |-> "nan", neg |-> FALSE, m |-> 0, e |-> 0]
Infinity(neg) == [kind |-> "infinity", neg |-> neg, m |-> 0, e |-> 0]

\* Number.prototype.toFixed(18)
toFixed18(x) ==
    LET sign == IF x.neg THEN << "-" >> ELSE << >>
        all == NumberText(x.m)
        \* Number.prototype.toString for a magnitude of 1e21 or more: the
        \* digits without their trailing zeros, then the exponent
        last == CHOOSE i \in 1..Len(all) :
                    /\ i = 1 \/ all[i] # "0"
                    /\ \A j \in (i + 1)..Len(all) : all[j] = "0"
        exponential == << all[1] >>
                           \o (IF last > 1 THEN << "." >> \o SubSeq(all, 2, last) ELSE << >>)
                           \o << "e", "+" >> \o NumberText(Len(all) + x.e - 1)
        \* otherwise the number as n * 10^(-k) with k <= 18, n rounded to nearest
        k == IF x.e >= 0 THEN 0 ELSE IF x.e < -18 THEN 18 ELSE -x.e
        unit == [i \in 1..4 |-> CASE i = 1 -> 10 [] i = 2 -> 100 [] i = 3 -> 1000
                                  [] OTHER -> 10000][-x.e - 18]
        n == IF x.e < -18 THEN (x.m + (unit \div 2)) \div unit ELSE x.m
        digits == NumberText(n) \o (IF x.e > 0 /\ n # 0 THEN Rep("0", x.e) ELSE << >>)
        padded == (IF Len(digits) <= k THEN Rep("0", k - Len(digits) + 1) ELSE << >>)
                      \o digits
        whole == SubSeq(padded, 1, Len(padded) - k)
        frac == SubSeq(padded, Len(padded) - k + 1, Len(padded)) \o Rep("0", 18 - k)
    IN  IF x.kind = "nan" THEN << "N", "a", "N" >>
        ELSE IF x.kind = "infinity"
        THEN sign \o << "I", "n", "f", "i", "n", "i", "t", "y" >>
        ELSE IF x.m # 0 /\ Len(all) + x.e >= 22 THEN sign \o exponential
        ELSE sign \o whole \o << "." >> \o frac

\* text.replace(/\.?0+$/, ''): the leftmost match is removed
TrimZeros(text) ==
    LET Zeros(i) == i <= Len(text) /\ \A j \in i..Len(text) : text[j] = "0"
        Matches(i) == Zeros(i) \/ (text[i] = "." /\ Zeros(i + 1))
        starts == {i \in 1..Len(text) : Matches(i)}
    IN  IF starts = {} THEN text
        ELSE SubSeq(text, 1, (CHOOSE i \in starts : \A j \in starts : i <= j) - 1)

\* formatAmountSafe(num)
formatAmountSafe(num) ==
    IF num.kind = "nan" \/ (num.kind = "finite" /\ num.m = 0) THEN << "0" >>
    ELSE LET trimmed == TrimZeros(toFixed18(num))
         IN  IF trimmed = << >> THEN << "0" >> ELSE trimmed

\* getSafeAmountForWallet(amount)
getSafeAmountForWallet(amount) == formatAmountSafe(amount)

\* formatAmount(value) of lib/format, for a value of type number
formatAmount(value) ==
    IF value.kind = "nan" \/ (value.kind = "finite" /\ value.m = 0) THEN << "0" >>
    ELSE LET trimmed == TrimZeros(toFixed18(value))
         IN  IF trimmed = << >> THEN << "0" >> ELSE trimmed

\* the numbers the formatters are applied to
FormatInputs ==
    {NaN, Infinity(FALSE), Infinity(TRUE)}
        \cup {Finite(neg, m, e) : neg \in BOOLEAN, m \in {0, 1, 6, 12, 100},
                                  e \in ((-MaxTinyExponent)..(-5)) \cup (0..MaxExponent)}

\* formatAmountSafe(num) or formatAmount(num) is called and returns
FormatCall(fn) ==
    /\ fnArgs # None
    /\ fnResult = None
    /\ fnResult' = Some([fn |-> fn,
                         text |-> IF fn = "formatAmountSafe"
                                  THEN formatAmountSafe(fnArgs[1])
                                  ELSE formatAmount(fnArgs[1])])
    /\ UNCHANGED << appVars, pageVars, watchVars, codecVars, fnArgs >>

FormatInit ==
    /\ AppInit
    /\ WatchIdle
    /\ PageIdle
    /\ chainEpoch = 0
    /\ CodecIdle
    /\ fnArgs \in {Some(x) : x \in FormatInputs}
    /\ fnResult = None

FormatNext == \E fn \in {"formatAmountSafe", "formatAmount"} : FormatCall(fn)

SpecFormat == FormatInit /\ [][FormatNext]_vars

\* the value of a run of digits
DigitsValue(digits) == ParseNumber(digits, 0).v.n

\* parseFloat(text): leading white space is skipped; the longest prefix that
\* is a decimal literal (or Infinity) is converted; NaN if there is none
parseFloat(text) ==
    LET IsDigit(i) == i <= Len(text) /\ \E d \in 1..10 : DigitChars[d] = text[i]
        \* the end of the run of digits that starts at i (i - 1 if empty)
        RunEnd(i) == CHOOSE j \in (i - 1)..Len(text) :
                         /\ \A n \in i..j : IsDigit(n)
                         /\ ~IsDigit(j + 1)
        Is(i, c) == i <= Len(text) /\ text[i] = c
        start == CHOOSE i \in 1..(Len(text) + 1) :
                     /\ \A n \in 1..(i - 1) : text[n] = " "
                     /\ ~Is(i, " ")
        neg == Is(start, "-")
        first == IF Is(start, "-") \/ Is(start, "+") THEN start + 1 ELSE start
        wholeEnd == RunEnd(first)
        fracEnd == IF Is(wholeEnd + 1, ".") THEN RunEnd(wholeEnd + 2) ELSE wholeEnd
        fracLen == IF Is(wholeEnd + 1, ".") THEN fracEnd - (wholeEnd + 1) ELSE 0
        hasDigits == wholeEnd >= first \/ fracLen > 0
        expSign == IF Is(fracEnd + 2, "-") \/ Is(fracEnd + 2, "+") THEN 1 ELSE 0
        expFirst == fracEnd + 2 + expSign
        hasExp == (Is(fracEnd + 1, "e") \/ Is(fracEnd + 1, "E")) /\ IsDigit(expFirst)
        expValue == DigitsValue(SubSeq(text, expFirst, RunEnd(expFirst)))
        exponent == IF ~hasExp THEN 0
                    ELSE IF Is(fracEnd + 2, "-") THEN -expValue ELSE expValue
        mantissa == DigitsValue(SubSeq(text, first, wholeEnd)
                                    \o SubSeq(text, wholeEnd + 2, wholeEnd + 1 + fracLen))
    IN  IF first + 7 <= Len(text)
              /\ SubSeq(text, first, first + 7) = << "I", "n", "f", "i", "n", "i", "t", "y" >>
        THEN Infinity(neg)
        ELSE IF ~hasDigits THEN NaN
        ELSE Finite(neg, mantissa, exponent - fracLen)

\* a < b for two finite numbers that are not negative
LessThan(a, b) ==
    LET base == IF a.e < b.e THEN a.e ELSE b.e
        Pow(n) == CASE n = 0 -> 1 [] n = 1 -> 10 [] n = 2 -> 100 [] n = 3 -> 1000
                    [] n = 4 -> 10000 [] n = 5 -> 100000 [] n = 6 -> 1000000
                    [] n = 7 -> 10000000 [] OTHER -> 100000000
    IN  a.m * Pow(a.e - base) < b.m * Pow(b.e - base)

\* faulty variant: an amount equal to the minimum is rejected as well
parseAmount_RejectsMinimum(value, minAmount) ==
    LET num == parseFloat(value)
    IN  IF Len(value) = 0 \/ \A i \in 1..Len(value) : value[i] = " " THEN None
        ELSE IF num.kind # "finite" THEN None
        ELSE IF num.neg /\ num.m # 0 THEN None
        ELSE IF num.m # 0 /\ ~LessThan(minAmount, num) THEN None
        ELSE Some(num)

\* parseAmount(value, minAmount): None stands for null
parseAmount(value, minAmount) ==
    LET num == parseFloat(value)
    IN  IF Len(value) = 0 \/ \A i \in 1..Len(value) : value[i] = " " THEN None
        ELSE IF num.kind # "finite" THEN None
        ELSE IF num.neg /\ num.m # 0 THEN None
        ELSE IF num.m # 0 /\ LessThan(num, minAmount) THEN None
        ELSE Some(num)

\* the texts an amount field can hold
AmountTexts ==
    { <<  >>,
      << " " >>,
      << " ", " " >>,
      << "5" >>,
      << " ", "7", " " >>,
      << "0" >>,
      << "0", ".", "0" >>,
      << "-", "0" >>,
      << "0", ".", "0", "0", "0", "0", "5" >>,
      << "0", ".", "0", "0", "0", "1" >>,
      << "0", ".", "0", "0", "0", "0", "0", "1" >>,
      << "0", ".", "0", "0", "0", "0", "0", "0", "5" >>,
      << "0", ".", "0", "0", "0", "0", "9" >>,
      << "-", "1" >>,
      << "-", "0", ".", "5" >>,
      << "a", "b", "c" >>,
      << "I", "n", "f", "i", "n", "i", "t", "y" >>,
      << "-", "I", "n", "f", "i", "n", "i", "t", "y" >>,
      << "N", "a", "N" >>,
      << "1", "e", "-", "5" >>,
      << "1", "E", "-", "4" >>,
      << "2", "e", "2" >>,
      << "5", "a", "b", "c" >>,
      << ".", "5" >>,
      << "5", "." >>,
      << "+", "3" >>,
      << "e", "5" >>,
      << "-" >>,
      << "." >>,
      << "1", "e" >>,
      << "1", "2", ".", "5", "0" >>,
      << "0", "x", "1", "0" >>,
      << "1", ",", "5" >>,
      << "0", "e", "5" >> }

\* minAmount: the default 0, MIN_OCT_AMOUNT and MIN_ETH_AMOUNT
MinAmounts == {Finite(FALSE, 0, 0), Finite(FALSE, 1, -4), Finite(FALSE, 1, -6)}

\* parseAmount(value, minAmount) is called and returns
ParseCall ==
    /\ fnArgs # None
    /\ fnResult = None
    /\ fnResult' = Some([returned |-> parseAmount(fnArgs[1].value, fnArgs[1].minAmount)])
    /\ UNCHANGED << appVars, pageVars, watchVars, codecVars, fnArgs >>

ParseInit ==
    /\ AppInit
    /\ WatchIdle
    /\ PageIdle
    /\ chainEpoch = 0
    /\ CodecIdle
    /\ fnArgs \in {Some([value |-> v, minAmount |-> m]) : v \in AmountTexts, m \in MinAmounts}
    /\ fnResult = None

SpecParse == ParseInit /\ [][ParseCall]_vars

(***************************************************************************)
(* The escrow transaction.  useSwapExecution (features/swap/hooks) and the *)
(* handlers inside pages/SwapPage.tsx each build the object handed to the  *)
(* wallet; the page module holds both, and either is what the button runs. *)
(***************************************************************************)
Handlers == {"useSwapExecution", "SwapPage"}

\* txPayload / evmTxPayload as JSON.stringify writes its members
EscrowTx(handler, direction, escrowAddress, payload, t) ==
    LET json == PayloadJson(payload)
        amount == Finite(FALSE, payload.amountIn, 0)
    IN  IF handler = "useSwapExecution"
        THEN [method |-> IF direction = "OCT_TO_ETH" THEN "send_transaction"
                         ELSE "send_evm_transaction",
              to |-> escrowAddress,
              amount |-> getSafeAmountForWallet(amount),
              field |-> IF direction = "OCT_TO_ETH" THEN "message" ELSE "data",
              body |-> IF direction = "OCT_TO_ETH"
                       THEN encodeIntentForOctraTx(json, t)
                       ELSE encodeIntentPayloadAsHex(json, t)]
        ELSE IF direction = "OCT_TO_ETH"
        THEN \* handleOctToEthSwap: message: JSON.stringify({ payload })
             [method |-> "send_transaction",
              to |-> escrowAddress,
              amount |-> formatAmount(amount),
              field |-> "message",
              body |-> JsonStringify(JObject(<< Member(TextOf("payload"), json) >>))]
        ELSE \* handleEthToOctSwap: the encoder's promise is not awaited, and
             \* JSON.stringify writes a Promise as {}
             [method |-> "send_evm_transaction",
              to |-> escrowAddress,
              amount |-> formatAmount(amount),
              field |-> "data",
              body |-> << "{", "}" >>]

\* the handler awaits the encoder where it has to, builds the transaction
\* and calls invoke() with it
Dispatch(f, handler) ==
    /\ flow[f].pc = "await_encode"
    /\ LET fl == flow[f]
           awaited == handler = "useSwapExecution"
       IN  IF awaited /\ encodeThrows(PayloadJson(fl.payload[1]), now)
           THEN /\ Catch(f, fl, "InvalidCharacterError")
                /\ UNCHANGED fnResult
           ELSE /\ flow' = [flow EXCEPT ![f] = [fl EXCEPT !.pc = "await_send",
                                                      !.sendCalls = @ + 1]]
                /\ fnResult' = Some([attempt |-> f,
                                     tx |-> EscrowTx(handler, fl.direction,
                                                     fl.escrowAddress[1],
                                                     fl.payload[1], now)])
                /\ UNCHANGED << swaps, currentSwapStatus, errors, resetTimers >>
    /\ now' = now + 1
    /\ UNCHANGED << watchVars, codecVars, pageVars, fnArgs, connection, capability,
                    derivedEvmAddress, pendingHistory, historyLoads, attempts >>

DispatchNext ==
    \/ \E conn \in WalletAccounts : HandleConnect(conn)
    \/ HandleAuthorize
    \/ \E d \in Directions : \E q \in QuoteProps(d) : ExecuteSwap(d, q)
    \/ \E f \in Attempts, r \in InvokeResults : SignReturn(f, r)
    \/ \E f \in Attempts, handler \in Handlers : Dispatch(f, handler)
    \/ \E f \in Attempts, r \in InvokeResults : SendReturn(f, r)

SpecDispatch == Init /\ [][DispatchNext]_vars

(***************************************************************************)
(* The quote is the unvalidated body of GET /quote (response.json()), so   *)
(* its amountIn may be any JSON number or string.                          *)
(***************************************************************************)
\* amountIn values a quote can carry: a positive number, zero, a numeric
\* string, and a string parseFloat turns into NaN
ReceivedAmounts ==
    {<<"number", 10>>, <<"number", 0>>, <<"string", "0">>, <<"string", "n/a">>}

ReceivedQuotes(d) ==
    { Some([BackendQuote(d) EXCEPT !.amountIn = a]) : a \in ReceivedAmounts }

QuoteNext ==
    \/ \E conn \in WalletAccounts : HandleConnect(conn)
    \/ HandleAuthorize
    \/ \E d \in Directions : \E q \in ReceivedQuotes(d) : ExecuteSwap(d, q)
    \/ \E f \in Attempts, r \in InvokeResults : SignReturn(f, r)
    \/ \E f \in Attempts : EncodeReturn(f)
    \/ \E f \in Attempts, r \in InvokeResults : SendReturn(f, r)

SpecQuote == Init /\ [][QuoteNext]_vars

(***************************************************************************)
(* The swap page (pages/SwapPage.tsx, lines 1-150) with useSwapQuote: the  *)
(* direction toggle, the amount field, the debounced quote fetch and the   *)
(* swap button.  A state change, the render that follows and the effects   *)
(* of that render are one action.  quoteLoading is written but read by no  *)
(* condition, and is left out.                                             *)
(***************************************************************************)
MaxQuoteFetches == 2

\* the texts typed into the amount field
TypedAmounts == { << >>, << "0" >>, << "1" >>, << "5", "0" >> }

\* octBalance / ethBalance of useBalances, the same for both assets here
CurrentBalance == Finite(FALSE, 10, 0)

\* amount > 0 for the result of parseFloat
Positive(x) ==
    \/ x.kind = "finite" /\ ~x.neg /\ x.m > 0
    \/ x.kind = "infinity" /\ ~x.neg

\* parseFloat(amountIn) > 0 && parseFloat(amountIn) <= currentBalance
isValidAmount(text) ==
    LET amount == parseFloat(text)
    IN  /\ amount.kind = "finite"
        /\ Positive(amount)
        /\ ~LessThan(CurrentBalance, amount)

\* step === 'swap': the form is rendered
SwapStep == connection # None /\ capability

\* the effect on [amountIn, fetchQuote, setQuote] of useSwapQuote, after a
\* render with amount text and direction d: the cleanup of the effect before
\* it has cleared the timer
DebounceEffect(text, d) ==
    IF Positive(parseFloat(text))
    THEN /\ quoteTimer' = Some([direction |-> d, amount |-> text])
         /\ quote' = quote
    ELSE /\ quoteTimer' = None
         /\ quote' = None

\* onChange={setAmountIn} of the From input
SetAmountIn(text) ==
    /\ SwapStep
    /\ ~isSwapping
    /\ text # amountIn
    /\ amountIn' = text
    /\ DebounceEffect(text, swapDirection)
    /\ UNCHANGED << appVars, watchVars, codecVars, fnVars, swapDirection,
                    quoteError, quoteRequests, quoteFetches >>

\* onChange={setSwapDirection} of DirectionToggle: fetchQuote is a new
\* closure, and the effect on [swapDirection, setQuote] resets the field
SetSwapDirection(d) ==
    /\ SwapStep
    /\ ~isSwapping
    /\ d # swapDirection
    /\ swapDirection' = d
    /\ amountIn' = << >>
    /\ quote' = None
    /\ quoteError' = None
    /\ quoteTimer' = None
    /\ UNCHANGED << appVars, watchVars, codecVars, fnVars, quoteRequests,
                    quoteFetches >>

\* the debounce timer fires: fetchQuote(amount) up to its await
DebounceFires ==
    /\ quoteTimer # None
    /\ quoteFetches < MaxQuoteFetches
    /\ quoteTimer' = None
    /\ IF ~capability
       THEN /\ quote' = None
            /\ quoteError' = None
            /\ UNCHANGED << quoteRequests, quoteFetches >>
       ELSE /\ quoteError' = None
            /\ quoteFetches' = quoteFetches + 1
            /\ quoteRequests' = quoteRequests \cup
                   { [n |-> quoteFetches + 1,
                      direction |-> quoteTimer[1].direction] }
            /\ quote' = quote
    /\ UNCHANGED << appVars, watchVars, codecVars, fnVars, swapDirection,
                    amountIn >>

\* fetchQuote after await getQuote(amount) / getEthToOctQuote(amount)
QuoteReturn(r) ==
    /\ r \in quoteRequests
    /\ quoteRequests' = quoteRequests \ {r}
    /\ quote' = Some(BackendQuote(r.direction))
    /\ quoteError' = None
    /\ UNCHANGED << appVars, watchVars, codecVars, fnVars, swapDirection,
                    amountIn, quoteTimer, quoteFetches >>

QuoteFailedMessage == "Quote failed: 500"

\* fetchQuote in its catch block
QuoteThrow(r) ==
    /\ r \in quoteRequests
    /\ quoteRequests' = quoteRequests \ {r}
    /\ quote' = None
    /\ quoteError' = Some(QuoteFailedMessage)
    /\ UNCHANGED << appVars, watchVars, codecVars, fnVars, swapDirection,
                    amountIn, quoteTimer, quoteFetches >>

\* quote && isValidAmount && hasLiquidity && !quoteError && targetAddress
\* && !isSwapping && !loading
canSwap ==
    /\ quote # None
    /\ isValidAmount(amountIn)
    /\ quoteError = None
    /\ TargetAddressOf(swapDirection) # None
    /\ ~isSwapping

\* onClick={executeSwap} of the Swap button
ClickSwap ==
    /\ SwapStep
    /\ canSwap
    /\ ExecuteSwap(swapDirection, quote)

QuoteRequestIds ==
    [n : 1..MaxQuoteFetches, direction : Directions]

PageNext ==
    \/ \E conn \in WalletAccounts : HandleConnect(conn)
    \/ HandleAuthorize
    \/ \E text \in TypedAmounts : SetAmountIn(text)
    \/ \E d \in Directions : SetSwapDirection(d)
    \/ DebounceFires
    \/ \E r \in QuoteRequestIds : QuoteReturn(r)
    \/ \E r \in QuoteRequestIds : QuoteThrow(r)
    \/ ClickSwap
    \/ \E f \in Attempts, r \in InvokeResults : SignReturn(f, r)

SpecPage == Init /\ [][PageNext]_vars

(***************************************************************************)
(* The orchestrator together with the invocation of waitForFulfillment it  *)
(* awaits.  One invocation is followed: that of the first attempt that     *)
(* reaches the polling step.                                               *)
(***************************************************************************)
\* f is the first attempt that called waitForFulfillment
FirstPoll(f) ==
    /\ flow[f].pc = "await_poll"
    /\ \A g \in Attempts : g < f => flow[g].pollCalls = 0

\* const finalStatus = await waitForFulfillment(...): the call
PollStart(f) ==
    /\ FirstPoll(f)
    /\ WatchStart("fulfillment")

\* the awaited promise settles: the orchestrator resumes with what the
\* invocation returned or threw
PollEnds(f) ==
    /\ FirstPoll(f)
    /\ wKind = "fulfillment"
    /\ \/ /\ wPc = "threw"
          /\ PollThrow(f, wResult[1])
       \/ /\ wPc = "returned"
          /\ \E res \in StatusResponses :
                 res.status = wResult[1] /\ PollReturn(f, res)

PollNext ==
    \/ \E conn \in WalletAccounts : HandleConnect(conn)
    \/ HandleAuthorize
    \/ \E d \in Directions : \E q \in QuoteProps(d) : ExecuteSwap(d, q)
    \/ \E f \in Attempts, r \in InvokeResults : SignReturn(f, r)
    \/ \E f \in Attempts : EncodeReturn(f)
    \/ \E f \in Attempts, r \in InvokeResults : SendReturn(f, r)
    \/ \E f \in Attempts, o \in {"confirmed", "failed", "timeout"} :
           ConfirmReturn(f, o)
    \/ \E f \in Attempts, r \in SubmitResults : SubmitReturn(f, r)
    \/ \E f \in Attempts : PollStart(f)
    \/ \E a \in IntentAnswers, d \in Delays : FulfillmentStatusReturn(a, d)
    \/ SleepReturn
    \/ \E f \in Attempts : PollEnds(f)

SpecPoll == Init /\ [][PollNext]_vars

(***************************************************************************)
(* Properties.                                                             *)
(***************************************************************************)
HasRec(sw, id) == \E i \in 1..Len(sw) : sw[i].id = id
Rec(sw, id) == sw[CHOOSE i \in 1..Len(sw) : sw[i].id = id]

NonTerminal == {"signing", "sending", "confirming", "submitting", "polling"}
Terminal == {"fulfilled", "failed"}

\* the moves the state machine allows a record's status to make
StatusMoves ==
    { << "signing", "sending" >>, << "sending", "confirming" >>,
      << "confirming", "submitting" >>, << "submitting", "polling" >>,
      << "polling", "fulfilled" >> }
      \cup { << st, "failed" >> : st \in NonTerminal }

\* C1: a record created by executeSwap starts as signing, and every change
\* of its status is one step forward along signing, sending, confirming,
\* submitting, polling, fulfilled, or a jump from a non-terminal status to
\* failed: never backward, never skipping a non-terminal state, and nothing
\* follows fulfilled or failed.
C1_StatusOrder ==
    [][\A f \in Attempts :
         HasRec(swaps', SwapId(f)) =>
            IF HasRec(swaps, SwapId(f))
            THEN \/ Rec(swaps', SwapId(f)).status = Rec(swaps, SwapId(f)).status
                 \/ << Rec(swaps, SwapId(f)).status,
                       Rec(swaps', SwapId(f)).status >> \in StatusMoves
            ELSE Rec(swaps', SwapId(f)).status = "signing"]_vars

\* a record went through every state to fulfilled while another one failed
C1_Witness ==
    \E f, g \in Attempts :
        /\ HasRec(swaps, SwapId(f)) /\ Rec(swaps, SwapId(f)).status = "fulfilled"
        /\ HasRec(swaps, SwapId(g)) /\ Rec(swaps, SwapId(g)).status = "failed"
        /\ flow[g].watchOutcome = Some("timeout")

\* the destination chain's address grammar
GrammarOk(d, a) == IF d = "OCT_TO_ETH" THEN IsEvmAddress(a) ELSE StartsWithOct(a)

\* C2: an invocation whose target address fails the destination chain's
\* grammar makes no sign_intent call and no escrow dispatch call, and creates
\* no record (so it never reaches the sending state).
C2_InvalidAddressNeverSigns ==
    \A f \in Attempts :
        (flow[f].pc # "unused" /\ ~GrammarOk(flow[f].direction, flow[f].target)) =>
            /\ flow[f].signCalls = 0
            /\ flow[f].sendCalls = 0
            /\ ~HasRec(swaps, SwapId(f))
            /\ flow[f].pc \in {"noop", "rejected"}

\* both builders have rejected an address
C2_Witness ==
    \E f, g \in Attempts :
        /\ flow[f].pc = "rejected" /\ flow[f].direction = "OCT_TO_ETH"
        /\ flow[f].target = EvmShort
        /\ flow[g].pc = "rejected" /\ flow[g].direction = "ETH_TO_OCT"
        /\ flow[g].target = OctUpper

\* C3: the settlement submit call is made only after the watcher returned
\* confirmed; after any other watcher outcome the attempt has made no submit
\* call and has failed.
C3_SubmitOnlyAfterConfirmed ==
    \A f \in Attempts :
        /\ flow[f].submitCalls > 0 => flow[f].watchOutcome = Some("confirmed")
        /\ (flow[f].watchOutcome # None /\ flow[f].watchOutcome # Some("confirmed")) =>
              /\ flow[f].submitCalls = 0
              /\ flow[f].pc = "failed"
              /\ HasRec(swaps, SwapId(f)) => Rec(swaps, SwapId(f)).status = "failed"

\* one attempt stopped at epoch_missed, another one submitted
C3_Witness ==
    \E f, g \in Attempts :
        /\ flow[f].watchOutcome = Some("epoch_missed")
        /\ HasRec(swaps, SwapId(f))
        /\ flow[g].submitCalls = 1

\* C4: the escrow transaction is dispatched only after sign_intent returned
\* success; when signing threw or returned success = false no dispatch call
\* is made.
C4_DispatchOnlyAfterSign ==
    \A f \in Attempts :
        /\ flow[f].sendCalls > 0 => flow[f].signResult = Some("ok")
        /\ flow[f].signResult \in {Some("refused"), Some("throw")} =>
              flow[f].sendCalls = 0 /\ flow[f].pc = "failed"

\* signing was refused in one attempt and threw in another
C4_Witness ==
    \E f, g \in Attempts :
        /\ flow[f].signResult = Some("refused")
        /\ flow[g].signResult = Some("throw")

C6_TerminalImmutable ==
    [][\A i \in 1..Len(swaps) : \A j \in 1..Len(swaps') :
          (swaps[i].status \in Terminal /\ swaps'[j].id = swaps[i].id) =>
              swaps'[j] = swaps[i]]_vars

\* a failed record is in the list while the next attempt has gone through
\* every step to fulfilled
C6_Witness ==
    \E f, g \in Attempts :
        /\ f # g
        /\ HasRec(swaps, SwapId(f)) /\ Rec(swaps, SwapId(f)).status = "failed"
        /\ HasRec(swaps, SwapId(g)) /\ Rec(swaps, SwapId(g)).status = "fulfilled"
        /\ Rec(swaps, SwapId(f)).createdAt < Rec(swaps, SwapId(g)).createdAt

C8_AtMostOnce ==
    \A f \in Attempts :
        /\ flow[f].signCalls <= 1
        /\ flow[f].sendCalls <= 1
        /\ flow[f].submitCalls <= 1
        /\ flow[f].error = Some(SubmitErrorMessage) =>
              /\ flow[f].submitCalls = 1
              /\ flow[f].pc = "failed"
              /\ flow[f].pollCalls = 0

\* the submit call of an attempt was answered with a non-success response
C8_Witness ==
    \E f \in Attempts :
        /\ flow[f].error = Some(SubmitErrorMessage)
        /\ flow[f].signCalls = 1 /\ flow[f].sendCalls = 1
        /\ HasRec(swaps, SwapId(f)) /\ Rec(swaps, SwapId(f)).status = "failed"

C10_PayoutFieldsSet ==
    \A f \in Attempts :
        (HasRec(swaps, SwapId(f)) /\ Rec(swaps, SwapId(f)).status = "fulfilled") =>
            /\ Rec(swaps, SwapId(f)).amountOut # None
            /\ Rec(swaps, SwapId(f)).fulfilledAt # None
            /\ Rec(swaps, SwapId(f)).targetTxHash # None

\* C10 amended: a fulfilled record created by executeSwap has fulfilledAt
\* populated, and its amountOut and targetTxHash are those of the FULFILLED
\* response: set whenever the response carries them, absent when it does not.
C10_PayoutFieldsFromResponse ==
    \A f \in Attempts :
        (HasRec(swaps, SwapId(f)) /\ Rec(swaps, SwapId(f)).status = "fulfilled") =>
            /\ Rec(swaps, SwapId(f)).fulfilledAt # None
            /\ flow[f].pollResponse # None
            /\ flow[f].pollResponse[1].status = "FULFILLED"
            /\ Rec(swaps, SwapId(f)).amountOut = flow[f].pollResponse[1].amountOut
            /\ Rec(swaps, SwapId(f)).targetTxHash = flow[f].pollResponse[1].targetTxHash

\* one fulfilled record carries the payout of its response, another one was
\* fulfilled by a response without payout fields
C10_Witness ==
    \E f, g \in Attempts :
        /\ HasRec(swaps, SwapId(f)) /\ Rec(swaps, SwapId(f)).status = "fulfilled"
        /\ Rec(swaps, SwapId(f)).amountOut = Some(5)
        /\ Rec(swaps, SwapId(f)).targetTxHash = Some("0xpayout")
        /\ HasRec(swaps, SwapId(g)) /\ Rec(swaps, SwapId(g)).status = "fulfilled"
        /\ Rec(swaps, SwapId(g)).amountOut = None

\* the words of the messages an attempt can fail with while polling
WordsOf(message) ==
    CASE message = "Timeout waiting for fulfillment" ->
             << "Timeout", "waiting", "for", "fulfillment" >>
      [] message = "Status check failed: 500" ->
             << "Status", "check", "failed:", "500" >>
      [] message = "Swap expired" -> << "Swap", "expired" >>
      [] message = "Swap rejected" -> << "Swap", "rejected" >>
      [] OTHER -> << message >>

Mentions(message, word) ==
    \E i \in 1..Len(WordsOf(message)) : WordsOf(message)[i] = word

WatchDone == wPc \in {"returned", "threw"}

\* C12: every value waitForFulfillment returns has status FULFILLED, EXPIRED
\* or REJECTED (the status of its last query); when every query answered
\* OPEN it ends only once the timeout has elapsed, and then by throwing the
\* timeout error, not by returning.
C12_FulfillmentReturnsTerminal ==
    wKind = "fulfillment" =>
        /\ wPc = "returned" =>
              /\ wResult \in {Some("FULFILLED"), Some("EXPIRED"), Some("REJECTED")}
              /\ wObserved[Len(wObserved)].status = wResult[1]
        /\ (WatchDone /\ \A i \in 1..Len(wObserved) : wObserved[i].status = "OPEN") =>
              /\ wPc = "threw"
              /\ wResult = Some(FulfillmentTimeoutMessage)
              /\ wClock - wStart >= WatchTimeout

\* the intent stayed OPEN over several polls and the wait timed out
C12_Witness ==
    /\ wKind = "fulfillment"
    /\ wPc = "threw"
    /\ wResult = Some(FulfillmentTimeoutMessage)
    /\ Len(wObserved) >= 3
    /\ \A i \in 1..Len(wObserved) : wObserved[i].status = "OPEN"

\* the scenario of the epoch-based watcher: the chain reported a starting
\* epoch, every epoch query succeeded, every status query answered pending,
\* and the epoch has advanced once
PendingWhileEpochAdvancesOnce ==
    /\ wKind = "octra"
    /\ wScenario.epoch0 # None
    /\ ~wScenario.epochFailed
    /\ wScenario.epochSteps = 1
    /\ \A i \in 1..Len(wObserved) : wObserved[i] = [found |-> TRUE, status |-> "pending"]

\* C13: in that scenario, for every starting epoch, once the first epoch
\* poll after the change has been answered the watcher is making its final
\* check or has returned epoch_missed: it does not poll on, and it does not
\* return timeout.
C13_EpochMissedAtFirstPoll ==
    (PendingWhileEpochAdvancesOnce /\ wScenario.pollsAfterChange >= 1) =>
        /\ wScenario.pollsAfterChange = 1
        /\ wPc \in {"final", "returned"}
        /\ wPc = "returned" => wResult = Some("epoch_missed")

FoundConfirmed == [found |-> TRUE, status |-> "confirmed"]
FoundFailed == [found |-> TRUE, status |-> "failed"]

\* C14: when the k-th status query of the direct-status watcher is the first
\* to answer found = true, status = confirmed, and the answers before it were
\* not terminal, the watcher returns confirmed having made exactly k status
\* queries; and it returns confirmed in no other case.
C14_ConfirmedAtKthPoll ==
    wKind = "sepolia" =>
        /\ \A k \in 1..Len(wObserved) :
              (/\ wObserved[k] = FoundConfirmed
               /\ \A j \in 1..(k - 1) : wObserved[j] \notin {FoundConfirmed, FoundFailed}) =>
                  /\ wPc = "returned"
                  /\ wResult = Some("confirmed")
                  /\ wQueries = k
                  /\ Len(wObserved) = k
        /\ (wPc = "returned" /\ wResult = Some("confirmed")) =>
              /\ wQueries = Len(wObserved)
              /\ wObserved[Len(wObserved)] = FoundConfirmed

\* the scenario with k = 3: pending, then a not-found answer, then confirmed
C14_Witness ==
    /\ wKind = "sepolia"
    /\ wObserved = << [found |-> TRUE, status |-> "pending"],
                      [found |-> FALSE, status |-> "confirmed"],
                      FoundConfirmed >>
    /\ wPc = "returned"
    /\ wResult = Some("confirmed")
    /\ wQueries = 3

\* C15: a query error during a poll of the direct-status watcher does not end
\* the wait and does not produce failed: after it the watcher sleeps, then
\* polls again or, the timeout having elapsed, returns timeout; the watcher
\* returns failed only on an answer found = true, status = failed.
C15_QueryErrorNotFatal ==
    wKind = "sepolia" =>
        /\ (wObserved # << >> /\ wObserved[Len(wObserved)] = QueryError) =>
              \/ wPc = "sleep"
              \/ wPc = "query" /\ wQueries = Len(wObserved) + 1
              \/ /\ wPc = "returned" /\ wResult = Some("timeout")
                 /\ wClock - wStart >= WatchTimeout
        /\ (wPc = "returned" /\ wResult = Some("failed")) =>
              wObserved[Len(wObserved)] = FoundFailed

\* two polls hit a query error and a later one was answered confirmed
C15_Witness ==
    /\ wKind = "sepolia"
    /\ wObserved = << QueryError, QueryError, FoundConfirmed >>
    /\ wPc = "returned"
    /\ wResult = Some("confirmed")

\* C16: every invocation of the epoch-based watcher and of the direct-status
\* watcher eventually returns one of confirmed, failed, epoch_missed and
\* timeout, whatever the backend answers, as long as every query completes
\* and every sleep ends.
C16_WatchersTerminate ==
    (wKind \in {"octra", "sepolia"}) ~>
        (/\ wPc = "returned"
         /\ wResult \in {Some("confirmed"), Some("failed"),
                         Some("epoch_missed"), Some("timeout")})

\* the transaction stayed pending on every poll, the epoch never advanced,
\* and the epoch-based watcher returned timeout
C16_Witness ==
    /\ wKind = "octra"
    /\ wPc = "returned"
    /\ wResult = Some("timeout")
    /\ wScenario.epochSteps = 0
    /\ Len(wObserved) >= 3
    /\ \A i \in 1..Len(wObserved) : wObserved[i].status = "pending"

\* the status a watcher reads from an answer
StatusReadFrom(kind, a) ==
    IF kind = "sepolia"
    THEN IF a = FoundConfirmed THEN "confirmed"
         ELSE IF a = FoundFailed THEN "failed" ELSE "pending"
    ELSE a.status

\* the statuses of the answers obtained so far (a query that threw gave none)
StatusesObtained ==
    LET answered == SelectSeq(wObserved, LAMBDA a : a # QueryError)
    IN  [i \in 1..Len(answered) |-> StatusReadFrom(wKind, answered[i])]

\* C17: whenever a watcher sleeps or has returned, onStatusChange has been
\* called once for every transaction-status result obtained so far, in
\* order, the epoch-based watcher's final re-check included.
C17_EveryStatusReported ==
    (wKind \in {"octra", "sepolia"} /\ wPc \in {"sleep", "returned"}) =>
        wCalls = StatusesObtained

\* C18: an updateSwap(id, updates) issued by a swap flow, with other flows
\* in flight, changes no field of a record with another id, leaves the
\* number and the order of the records as they were, and changes nothing
\* when no record has that id.
C18_UpdateSwapFrame ==
    [][\A f \in Attempts : \A u \in FlowUpdates :
          StoreUpdateSwap(f, u) =>
              /\ Len(swaps') = Len(swaps)
              /\ \A i \in 1..Len(swaps) :
                    /\ swaps'[i].id = swaps[i].id
                    /\ swaps[i].id # SwapId(f) => swaps'[i] = swaps[i]
              /\ ~HasRec(swaps, SwapId(f)) => swaps' = swaps]_vars

\* two swaps in flight, each record carrying what its own flow wrote
C18_Witness ==
    /\ Len(swaps) = 2
    /\ swaps[1].id = SwapId(2) /\ swaps[1].status = "confirming"
    /\ swaps[1].intentId = None /\ swaps[1].sourceTxHash # None
    /\ swaps[2].id = SwapId(1) /\ swaps[2].status = "polling"
    /\ swaps[2].intentId # None

\* a swap was started by an invocation later than the f-th
LaterSwapStarted(f) ==
    \E g \in Attempts : g > f /\ flow[g].pc \notin {"unused", "noop", "rejected"}

\* C19: the step in which an attempt ends fulfilled or failed arms one reset
\* timer; while an ended attempt has a reset timer pending, the current-status
\* indicator eventually is idle unless a further swap is started; the timer
\* that resets the indicator changes no swap record.
C19_ReturnsToIdle ==
    /\ [][\A f \in Attempts :
             (flow[f].pc \notin {"fulfilled", "failed"}
                  /\ flow'[f].pc \in {"fulfilled", "failed"})
                 => resetTimers' = resetTimers + 1]_vars
    /\ \A f \in Attempts :
          (flow[f].pc \in {"fulfilled", "failed"} /\ resetTimers > 0) ~>
              (currentSwapStatus = "idle" \/ LaterSwapStarted(f))
    /\ [][ResetTimerFires => swaps' = swaps]_vars

\* the indicator is idle again while the record of the attempt is still
\* fulfilled
C19_Witness ==
    \E f \in Attempts :
        /\ flow[f].pc = "fulfilled"
        /\ currentSwapStatus = "idle"
        /\ resetTimers = 0
        /\ ~LaterSwapStarted(f)
        /\ HasRec(swaps, SwapId(f)) /\ Rec(swaps, SwapId(f)).status = "fulfilled"

\* C20: whenever an encoder has returned for a built payload and the receiver
\* has decoded the field (base64 for the Octra message; 0x stripped, hex and
\* then base64 for the EVM data), the decoded envelope's payload equals the
\* payload that was encoded, and its hash equals the hash recomputed from
\* the decoded payload
C20_EnvelopeRoundTrip ==
    codecDecoded # None =>
        LET decoded == codecDecoded[1]
        IN  /\ JGet(decoded, "payload") = PayloadJson(codecPayload[1])
            /\ JGet(decoded, "hash") = JString(hashPayload(JGet(decoded, "payload")))

\* an EVM data field carrying an Octra address with a Latin-1 character
\* outside ASCII has been decoded
C20_Witness ==
    /\ codecDecoded # None
    /\ codecField = "data"
    /\ codecPayload[1].targetAddress = OctEacute
    /\ codecPayload[1].amountIn = 9

\* C21: two payload objects with the same members in a different key order
\* have the same hash
C21_HashIgnoresKeyOrder ==
    fnResult # None =>
        ({fnArgs[1].payload.o[j] : j \in 1..Len(fnArgs[1].payload.o)}
             = {fnArgs[1].other.o[j] : j \in 1..Len(fnArgs[1].other.o)}
         => fnResult[1].payload = fnResult[1].other)

\* C22: for every payload a builder returned, each of the two encoders
\* returns a string and raises no error
C22_EncodingTotal ==
    (codecPayload # None /\ codecOutput # None) => ~codecOutput[1].threw

\* the text is a plain decimal: an optional sign, digits, and optionally a
\* point followed by one to 18 digits the last of which is not 0
PlainDecimal(text) ==
    LET body == IF Len(text) > 0 /\ text[1] = "-" THEN Tail(text) ELSE text
        IsDigit(c) == \E d \in 1..10 : DigitChars[d] = c
        points == {i \in 1..Len(body) : body[i] = "."}
    IN  /\ Len(body) > 0
        /\ \A i \in 1..Len(body) : IsDigit(body[i]) \/ body[i] = "."
        /\ points = {} \/ \E p \in points :
               /\ points = {p}
               /\ p > 1
               /\ Len(body) - p \in 1..18
               /\ body[Len(body)] # "0"

\* C27: the formatters never return a text containing e or E; zero and
\* non-finite inputs give "0", 6e-7 gives "0.0000006", every other value is
\* a plain decimal with at most 18 fractional digits and no trailing zeros
C27_NoExponentNotation ==
    fnResult # None =>
        LET x == fnArgs[1]
            text == fnResult[1].text
        IN  /\ \A i \in 1..Len(text) : text[i] \notin {"e", "E"}
            /\ (x.kind # "finite" \/ x.m = 0) => text = << "0" >>
            /\ x = Finite(FALSE, 6, -7) => text = << "0", ".", "0", "0", "0", "0", "0", "0", "6" >>
            /\ (x.kind = "finite" /\ x.m # 0) => PlainDecimal(text)

\* C28: parseAmount returns null exactly when the input is empty or blank,
\* parses to a non-finite value, is negative, or is positive and below
\* minAmount; otherwise it returns the parsed number ("5" with minimum 0.0001
\* gives 5, "0.00005" with minimum 0.0001 is invalid)
C28_ParseAmountRejects ==
    fnResult # None =>
        LET value == fnArgs[1].value
            minAmount == fnArgs[1].minAmount
            returned == fnResult[1].returned
            num == parseFloat(value)
            blank == \A i \in 1..Len(value) : value[i] = " "
            positive == num.kind = "finite" /\ ~num.neg /\ num.m # 0
            negative == num.kind = "finite" /\ num.neg /\ num.m # 0
            invalid == \/ blank
                       \/ num.kind # "finite"
                       \/ negative
                       \/ positive /\ LessThan(num, minAmount)
        IN  /\ returned = None <=> invalid
            /\ ~invalid => returned = Some(num)
            /\ (value = << "5" >> /\ minAmount = Finite(FALSE, 1, -4))
                   => returned = Some(Finite(FALSE, 5, 0))
            /\ (value = << "0", ".", "0", "0", "0", "0", "5" >> /\ minAmount = Finite(FALSE, 1, -4))
                   => returned = None

\* "0.00005" was rejected against MIN_OCT_AMOUNT
C28_Witness ==
    /\ fnResult # None
    /\ fnArgs[1].value = << "0", ".", "0", "0", "0", "0", "5" >>
    /\ fnArgs[1].minAmount = Finite(FALSE, 1, -4)
    /\ fnResult[1].returned = None

\* C23: the escrow transaction dispatched for an attempt goes to the quote's
\* escrowAddress, carries the safe format of payload.amountIn, and its
\* message (OCT to ETH) or data (ETH to OCT) is the envelope encoding of the
\* attempt's payload with its hash; once the wallet has returned, the hash it
\* returned is the record's sourceTxHash
C23_EscrowTxContents ==
    fnResult # None =>
        LET f == fnResult[1].attempt
            tx == fnResult[1].tx
            fl == flow[f]
            payload == fl.payload[1]
        IN  /\ tx.to = BackendQuote(fl.direction).escrowAddress
            /\ tx.amount = formatAmountSafe(Finite(FALSE, payload.amountIn, 0))
            /\ tx.field = (IF fl.direction = "OCT_TO_ETH" THEN "message" ELSE "data")
            /\ \E t \in 0..now :
                   /\ ~encodeThrows(PayloadJson(payload), t)
                   /\ tx.body = (IF fl.direction = "OCT_TO_ETH"
                                 THEN encodeIntentForOctraTx(PayloadJson(payload), t)
                                 ELSE encodeIntentPayloadAsHex(PayloadJson(payload), t))
            /\ (fl.pc = "await_confirm" /\ HasRec(swaps, SwapId(f)))
                   => Rec(swaps, SwapId(f)).sourceTxHash = fl.txHash

\* the payload has one of the two shapes, the one of direction d
PayloadShape(d, p) ==
    /\ p.version = 1
    /\ p.intentType = "swap"
    /\ p.fromAsset # p.toAsset
    /\ \/ d = "OCT_TO_ETH" /\ p.fromAsset = "OCT" /\ p.toAsset = "ETH"
              /\ p.targetChain = "ethereum_sepolia"
       \/ d = "ETH_TO_OCT" /\ p.fromAsset = "ETH" /\ p.toAsset = "OCT"
              /\ p.targetChain = "octra_mainnet"

\* C24: every payload the builder returned to executeSwap has version 1,
\* intentType swap, different assets, and the asset pair and target chain
\* of its direction; its expiry is after its creation time; the direction
\* of the record that carries it agrees with its asset pair
C24_PayloadShape ==
    /\ [](\A f \in Attempts :
              flow[f].payload # None =>
                  PayloadShape(flow[f].direction, flow[f].payload[1]))
    /\ [][\A f \in Attempts :
              (flow[f].payload = None /\ flow'[f].payload # None)
                  => flow'[f].payload[1].expiry > now]_vars
    /\ [](\A i \in 1..Len(swaps) :
              swaps[i].id[1] = "swap" =>
                  /\ PayloadShape(swaps[i].direction, swaps[i].payload)
                  /\ swaps[i].payload.expiry > swaps[i].createdAt)

\* records of both directions are in the list
C24_Witness ==
    /\ Len(swaps) = 2
    /\ swaps[1].id = SwapId(2) /\ swaps[1].direction = "ETH_TO_OCT"
    /\ swaps[1].payload.fromAsset = "ETH"
    /\ swaps[2].id = SwapId(1) /\ swaps[2].direction = "OCT_TO_ETH"
    /\ swaps[2].payload.fromAsset = "OCT"

C26_ZeroAmountRejected ==
    \A f \in Attempts :
        (flow[f].payload # None /\ flow[f].payload[1].amountIn = 0)
            => flow[f].signCalls = 0 /\ flow[f].sendCalls = 0

\* C29: the epoch-based watcher returns epoch_missed only from its final
\* check, which it makes only after a current-epoch query answered a value
\* strictly greater than the epoch recorded at the start, and only when that
\* single re-check did not report confirmed; a status query (in the loop or
\* the re-check) that reports confirmed ends the watch as confirmed, and a
\* loop query that reports failed ends it as failed, whatever the epoch
C29_EpochMissedOnlyAfterChange ==
    /\ [][(wKind = "octra" /\ wPc = "epoch" /\ wPc' = "final") =>
              /\ wInitialEpoch # None
              /\ chainEpoch > 0
              /\ chainEpoch > wInitialEpoch[1]
              /\ wQueries' = wQueries + 1]_vars
    /\ [][(wResult' = Some("epoch_missed") /\ wResult # Some("epoch_missed")) =>
              /\ wKind = "octra"
              /\ wPc = "final"
              /\ Len(wObserved') = Len(wObserved) + 1
              /\ wObserved'[Len(wObserved')].status # "confirmed"]_vars
    /\ [][(wKind = "octra" /\ wPc \in {"query", "final"}
             /\ Len(wObserved') = Len(wObserved) + 1
             /\ wObserved'[Len(wObserved')].status = "confirmed") =>
              wPc' = "returned" /\ wResult' = Some("confirmed")]_vars
    /\ [][(wKind = "octra" /\ wPc = "query"
             /\ Len(wObserved') = Len(wObserved) + 1
             /\ wObserved'[Len(wObserved')].status = "failed") =>
              wPc' = "returned" /\ wResult' = Some("failed")]_vars
    /\ [](wResult = Some("epoch_missed") =>
              /\ wKind = "octra"
              /\ wPc = "returned"
              /\ wInitialEpoch # None
              /\ chainEpoch > wInitialEpoch[1]
              /\ wObserved[Len(wObserved)].status # "confirmed")

\* the epoch moved during the watch of a transaction that stayed pending, and
\* the re-check reported it failed
C29_Witness ==
    /\ wKind = "octra"
    /\ wResult = Some("epoch_missed")
    /\ Len(wObserved) >= 2
    /\ wObserved[Len(wObserved) - 1].status = "pending"
    /\ wObserved[Len(wObserved)].status = "failed"
    /\ wScenario.epochSteps > 0

\* C30: whenever a swap record created by executeSwap has a non-terminal
\* status, the shared currentSwapStatus indicator is not idle
C30_IndicatorFollowsRecords ==
    \A i \in 1..Len(swaps) :
        (swaps[i].id[1] = "swap" /\ swaps[i].status \in NonTerminal)
            => currentSwapStatus # "idle"

\* C31: whenever executeSwap has built a payload for direction D, the quote
\* it consumed was fetched for D: the escrow address it took from the quote
\* is the escrow of D's source asset
C31_QuoteMatchesDirection ==
    \A f \in Attempts :
        flow[f].payload # None =>
            flow[f].escrowAddress = Some(EscrowOf(SourceAsset(flow[f].direction)))

\* C32: the epoch-based watcher returns epoch_missed only when its final
\* re-check retrieved the transaction (found) with a status other than
\* confirmed; a lookup that failed (status unknown) never ends the watch as
\* epoch_missed
C32_EpochMissedNeedsLookup ==
    (wKind = "octra" /\ wResult = Some("epoch_missed")) =>
        /\ wObserved[Len(wObserved)].found
        /\ wObserved[Len(wObserved)].status \in {"pending", "failed"}

C34_HashAndIntentSet ==
    /\ [](\A i \in 1..Len(swaps) :
              swaps[i].id[1] = "swap" =>
                  /\ swaps[i].status \in {"confirming", "submitting", "polling",
                                          "fulfilled"}
                         => swaps[i].sourceTxHash # None
                  /\ swaps[i].status \in {"polling", "fulfilled"}
                         => swaps[i].intentId # None)
    /\ [][\A i \in 1..Len(swaps) : \A j \in 1..Len(swaps') :
              (swaps[i].id[1] = "swap" /\ swaps'[j].id = swaps[i].id) =>
                  /\ swaps[i].sourceTxHash # None
                         => swaps'[j].sourceTxHash = swaps[i].sourceTxHash
                  /\ swaps[i].intentId # None
                         => swaps'[j].intentId = swaps[i].intentId]_vars

\* a fulfilled record that carries both fields, beside an earlier attempt
C34_Witness ==
    \E i \in 1..Len(swaps) :
        /\ swaps[i].id = << "swap", 2 >>
        /\ swaps[i].status = "fulfilled"
        /\ swaps[i].sourceTxHash = Some(TxHashOf(2))
        /\ swaps[i].intentId = Some(IntentIdOf(2))
        /\ Len(swaps) = 2

\* C35: the executeSwap call whose payload builder rejects the address leaves
\* the swap list, currentSwapStatus and the reset timers as they were, and
\* appends exactly one error, with code VALIDATION_FAILED and the builder's
\* message, to the error log; a call that passes the guard with an address
\* the builder rejects always ends this way
C35_ValidationFailureFrame ==
    [][\A f \in Attempts :
          /\ (flow[f].pc = "unused" /\ flow'[f].pc = "rejected") =>
                 /\ ~GrammarOk(flow'[f].direction, flow'[f].target)
                 /\ swaps' = swaps
                 /\ currentSwapStatus' = currentSwapStatus
                 /\ resetTimers' = resetTimers
                 /\ errors' = Append(errors,
                        [code |-> "VALIDATION_FAILED",
                         message |-> BuilderMessage(flow'[f].direction),
                         timestamp |-> now])
                 /\ flow'[f].signCalls = 0 /\ flow'[f].sendCalls = 0
          /\ (flow[f].pc = "unused" /\ flow'[f].pc \notin {"unused", "noop"}
                /\ ~GrammarOk(flow'[f].direction, flow'[f].target)) =>
                 flow'[f].pc = "rejected"]_vars

\* two calls were rejected while the list held the loaded history
C35_Witness ==
    /\ flow[1].pc = "rejected"
    /\ flow[2].pc = "rejected"
    /\ Len(swaps) >= 1
    /\ currentSwapStatus = "idle"
    /\ resetTimers = 0
    /\ Len(errors) = 2
    /\ \A k \in 1..2 : errors[k].code = "VALIDATION_FAILED"

=========================================================================
